---- MODULE Spec2Model ----
(***************************************************************************)
(* Model of the McRoaster firmware core: the cooperative loop              *)
(*   loop() { serial_comm_update(); safety_update(); state_update(); }     *)
(* with the state machine (state.cpp), the safety monitor (safety.cpp),    *)
(* the hardware layer (hardware.cpp), the PID (pid_control.cpp) and the    *)
(* serial transport (serial_comm.cpp).                                     *)
(*                                                                         *)
(* Each C++ translation unit's file-scope statics are one record-valued    *)
(* variable (sm, hw, saf, pid, ser).  The C++ functions are operators that *)
(* map a "world" record w (all five records, the clock and the outbound    *)
(* message list) to the world after the call, so that a handler's calls    *)
(* compose in the order the code makes them.                               *)
(*                                                                         *)
(* Numbers: temperatures are whole degrees Celsius, times are milliseconds *)
(* of millis(), float expressions are evaluated in integer arithmetic on a *)
(* common denominator and truncated where the code truncates with (int).   *)
(***************************************************************************)
EXTENDS Integers, Sequences, FiniteSets, TLC

VARIABLES sm, hw, saf, pid, ser, now, pc, out

vars == <<sm, hw, saf, pid, ser, now, pc, out>>

(***************************************************************************)
(* Program constants (config.h, serial_comm.cpp, safety.cpp)               *)
(***************************************************************************)
PID_KP_AGGRESSIVE == 120
PID_KI_AGGRESSIVE == 30
PID_KD_AGGRESSIVE == 60
PID_KP_CONSERVATIVE == 70
PID_KI_CONSERVATIVE == 15
PID_KD_CONSERVATIVE == 10
PID_THRESHOLD == 10
PID_OUTPUT_MIN == 0
PID_OUTPUT_MAX == 255
MAX_CHAMBER_TEMP == 260
WARN_CHAMBER_TEMP == 250
MIN_FAN_WHEN_HEATING == 40
DEFAULT_PREHEAT_TEMP == 180
DEFAULT_ROAST_SETPOINT == 200
COOLING_TARGET_TEMP == 50
PREHEAT_TIMEOUT_MS == 900000
PID_WINDOW_SIZE_MS == 2000
FAN_PREHEAT_DUTY == 50
FAN_ROAST_DEFAULT == 90
FAN_COOLING_DUTY == 100
FAN_ROAST_MIN_DUTY == 30
LPF_ALPHA_PERCENT == 15
ROR_SAMPLE_INTERVAL_MS == 30000
SERIAL_TIMEOUT_MS == 5000
STATE_UPDATE_INTERVAL == 1000
FAULT_THRESHOLD == 10
GOOD_THRESHOLD == 3
MANUAL_FAN_DEFAULT == 50
FAN_ONLY_DEFAULT == 50
SETUP_DELAY_MS == 1100
INPUT_BUFFER_SIZE == 512
FAN_TEST_HOLD_MS == 5000

(***************************************************************************)
(* Bounds of the model                                                     *)
(***************************************************************************)
\* the clock stops advancing once it would pass MaxNow
MaxNow == 901101
\* the same, where the pauses are HalfStep long (three pauses)
MaxNowPreheat == 1351103
\* the same, where the pauses are ShortStep long (four pauses)
MaxNowWatchdog == 11104
\* the same, where the pauses are TickStep long (six pauses)
MaxNowWindow == 4100
\* the same, where the fan pin test holds the loop (two holds)
MaxNowDebug == 11100
\* a faulted thermocouple read is offered only while the debouncer's
\* fault_count is below this cap (the uint8 counter is otherwise unbounded)
MaxFaultCount == 12

(***************************************************************************)
(* Arithmetic helpers                                                      *)
(***************************************************************************)
\* unsigned long subtraction millis() - t.  The clock stays below the
\* largest clock bound, far below 2^32, and t is an earlier value of the
\* clock or 0, so the 32-bit difference is the plain difference.
Since(a, b) == a - b

\* C integer division (truncation toward zero)
CDiv(a, b) == IF a >= 0 THEN a \div b ELSE -((-a) \div b)

\* Arduino map(x, in_min, in_max, out_min, out_max)
map(x, in_min, in_max, out_min, out_max) ==
    CDiv((x - in_min) * (out_max - out_min), in_max - in_min) + out_min

\* (uint8_t)value for a value the type can hold
U8(v) == v % 256

Abs(x) == IF x < 0 THEN -x ELSE x

\* serial_send_log / Serial.println of one outbound message
Emit(w, m) == [w EXCEPT !.out = Append(@, m)]

(***************************************************************************)
(* hardware.cpp                                                            *)
(* fan_ena is the duty last written to PIN_FAN_ENA by analogWrite,         *)
(* fan_pwm_written the static _fan_pwm_written that shadows it.            *)
(***************************************************************************)
fan_enable(w) ==
    [w EXCEPT !.hw.fan_enabled = TRUE,
              !.hw.fan_ena = map(w.hw.fan_speed, 0, 100, 0, 255),
              !.hw.fan_pwm_written = map(w.hw.fan_speed, 0, 100, 0, 255)]

fan_disable(w) ==
    [w EXCEPT !.hw.fan_enabled = FALSE,
              !.hw.fan_ena = 0,
              !.hw.fan_pwm_written = 0]

fan_set_speed(w, percent0) ==
    LET percent == IF percent0 > 100 THEN 100 ELSE percent0
    IN  [w EXCEPT !.hw.fan_speed = percent,
                  !.hw.fan_ena =
                      IF w.hw.fan_enabled THEN map(percent, 0, 100, 0, 255) ELSE @,
                  !.hw.fan_pwm_written =
                      IF w.hw.fan_enabled THEN map(percent, 0, 100, 0, 255) ELSE @]

\* the dump re-writes the pins from the statics
fan_debug_dump(w) ==
    [w EXCEPT !.hw.fan_ena = IF w.hw.fan_enabled THEN w.hw.fan_pwm_written ELSE 0]

\* the pins are held HIGH while delay() blocks the loop, then written LOW
\* and 0; the statics are not touched
fan_test_direct(w) ==
    [w EXCEPT !.hw.fan_ena = 0,
              !.now = @ + FAN_TEST_HOLD_MS]

heater_enable(w) ==
    [w EXCEPT !.hw.heater_enabled = TRUE,
              !.hw.heater_window_start = w.now]

\* variant: heater_disable() without the write of the SSR pin
heater_disable_ssr_left(w) ==
    [w EXCEPT !.hw.heater_enabled = FALSE,
              !.hw.heater_pid_output = 0,
              !.hw.heater_power = 0]

heater_disable(w) ==
    [w EXCEPT !.hw.heater_enabled = FALSE,
              !.hw.heater_pid_output = 0,
              !.hw.heater_power = 0,
              !.hw.ssr = FALSE]

heater_set_power(w, percent0) ==
    LET percent == IF percent0 > 100 THEN 100 ELSE percent0
    IN  [w EXCEPT !.hw.heater_power = percent,
                  !.hw.heater_pid_output = map(percent, 0, 100, 0, 255)]

\* output is the PID output already truncated to an integer (see pid_update)
heater_set_pid_output(w, output0) ==
    LET output == IF output0 < 0 THEN 0 ELSE IF output0 > 255 THEN 255 ELSE output0
    IN  [w EXCEPT !.hw.heater_pid_output = output,
                  !.hw.heater_power = map(output, 0, 255, 0, 100)]

\* variant: the SSR is HIGH up to and including the on-time
heater_update_on_at_zero(w) ==
    IF ~w.hw.heater_enabled
    THEN [w EXCEPT !.hw.ssr = FALSE]
    ELSE LET windowTime0 == Since(w.now, w.hw.heater_window_start)
             reset == windowTime0 >= PID_WINDOW_SIZE_MS
             windowTime == IF reset THEN 0 ELSE windowTime0
             onTime == map(w.hw.heater_pid_output, 0, 255, 0, PID_WINDOW_SIZE_MS)
         IN  [w EXCEPT !.hw.heater_window_start = IF reset THEN w.now ELSE @,
                       !.hw.ssr = (windowTime <= onTime)]

heater_update(w) ==
    IF ~w.hw.heater_enabled
    THEN [w EXCEPT !.hw.ssr = FALSE]
    ELSE LET windowTime0 == Since(w.now, w.hw.heater_window_start)
             reset == windowTime0 >= PID_WINDOW_SIZE_MS
             windowTime == IF reset THEN 0 ELSE windowTime0
             onTime == map(w.hw.heater_pid_output, 0, 255, 0, PID_WINDOW_SIZE_MS)
         IN  [w EXCEPT !.hw.heater_window_start = IF reset THEN w.now ELSE @,
                       !.hw.ssr = (windowTime < onTime)]

\* One acquisition.  The reading r is the frame the code settles on:
\* r.fault is bit 16, r.mask bits 0..2, r.temp the decoded temperature.
\* The result is the world after the read and the value returned
\* (nan = TRUE stands for NAN).
thermocouple_read(w, r) ==
    IF r.fault
    THEN [w |-> [w EXCEPT !.hw.thermo_fault = r.mask], nan |-> TRUE, v |-> 0]
    ELSE [w |-> [w EXCEPT !.hw.thermo_fault = 0], nan |-> FALSE, v |-> r.temp]

thermocouple_get_fault(w) == w.hw.thermo_fault

\* y <- alpha*x + (1-alpha)*y, in whole degrees
thermocouple_read_filtered(w, r) ==
    LET rd == thermocouple_read(w, r)
    IN  IF rd.nan
        THEN [w |-> rd.w, v |-> rd.w.hw.filtered_temp]
        ELSE IF ~rd.w.hw.filter_initialized
        THEN [w |-> [rd.w EXCEPT !.hw.filtered_temp = rd.v,
                                 !.hw.filter_initialized = TRUE],
              v |-> rd.v]
        ELSE LET y == CDiv(LPF_ALPHA_PERCENT * rd.v
                           + (100 - LPF_ALPHA_PERCENT) * rd.w.hw.filtered_temp, 100)
             IN  [w |-> [rd.w EXCEPT !.hw.filtered_temp = y], v |-> y]

\* rate of rise in whole degrees per minute
calculate_ror(w, r) ==
    LET rd == thermocouple_read_filtered(w, r)
        w1 == rd.w
        elapsed == Since(w1.now, w1.hw.ror_last_time)
    IN  IF w1.hw.ror_last_time = 0
        THEN [w1 EXCEPT !.hw.ror_last_temp = rd.v, !.hw.ror_last_time = w1.now]
        ELSE IF elapsed >= ROR_SAMPLE_INTERVAL_MS
        THEN [w1 EXCEPT !.hw.ror_value = CDiv((rd.v - w1.hw.ror_last_temp) * 60000, elapsed),
                        !.hw.ror_last_temp = rd.v,
                        !.hw.ror_last_time = w1.now]
        ELSE w1

reset_ror(w) ==
    [w EXCEPT !.hw.ror_last_temp = 0, !.hw.ror_last_time = 0, !.hw.ror_value = 0]

(***************************************************************************)
(* pid_control.cpp                                                         *)
(* The float _output is kept truncated to an integer: its only readers are *)
(* heater_set_pid_output, which truncates it with (int) before use, and    *)
(* the clamps.  _integral is kept in degree-milliseconds.  _last_error is  *)
(* written but never read and is left out.                                 *)
(***************************************************************************)
pid_set_setpoint(w, setpoint) == [w EXCEPT !.pid.setpoint = setpoint]

pid_set_aggressive_tunings(w) ==
    [w EXCEPT !.pid.kp = PID_KP_AGGRESSIVE, !.pid.ki = PID_KI_AGGRESSIVE,
              !.pid.kd = PID_KD_AGGRESSIVE, !.pid.is_aggressive = TRUE]

pid_set_conservative_tunings(w) ==
    [w EXCEPT !.pid.kp = PID_KP_CONSERVATIVE, !.pid.ki = PID_KI_CONSERVATIVE,
              !.pid.kd = PID_KD_CONSERVATIVE, !.pid.is_aggressive = FALSE]

\* variant: the tunings never return to the conservative set
pid_auto_tune_latching(w, current_temp) ==
    LET error == Abs(w.pid.setpoint - current_temp)
    IN  IF error > PID_THRESHOLD /\ ~w.pid.is_aggressive
        THEN pid_set_aggressive_tunings(w)
        ELSE w

pid_auto_tune(w, current_temp) ==
    LET error == Abs(w.pid.setpoint - current_temp)
    IN  IF error > PID_THRESHOLD /\ ~w.pid.is_aggressive
        THEN pid_set_aggressive_tunings(w)
        ELSE IF error <= PID_THRESHOLD /\ w.pid.is_aggressive
        THEN pid_set_conservative_tunings(w)
        ELSE w

\* variant: the output is not clamped to [PID_OUTPUT_MIN, PID_OUTPUT_MAX]
pid_update_unclamped(w, current_temp) ==
    IF ~w.pid.enabled
    THEN [w EXCEPT !.pid.output = 0]
    ELSE IF w.pid.last_time = 0
    THEN [w EXCEPT !.pid.last_time = w.now, !.pid.last_input = current_temp]
    ELSE LET dt == Since(w.now, w.pid.last_time)   \* milliseconds
         IN  IF dt <= 0
             THEN w
             ELSE LET error == w.pid.setpoint - current_temp
                      w1 == pid_auto_tune(w, current_temp)
                      kp == w1.pid.kp
                      ki == w1.pid.ki
                      kd == w1.pid.kd
                      max_integral == CDiv(PID_OUTPUT_MAX * 1000, ki)
                      i0 == w1.pid.integral + error * dt
                      integral == IF i0 > max_integral THEN max_integral
                                  ELSE IF i0 < -max_integral THEN -max_integral
                                  ELSE i0
                      \* the terms in thousandths of an output unit
                      p_term == kp * error * 1000
                      i_term == ki * integral
                      q == kd * (current_temp - w1.pid.last_input) * 1000
                      d_input == (Abs(q) \div dt) * 1000 + ((Abs(q) % dt) * 1000) \div dt
                      d_term == IF q >= 0 THEN -d_input ELSE d_input
                      sum == p_term + i_term + d_term
                      output == CDiv(sum, 1000)
                  IN  [w1 EXCEPT !.pid.integral = integral,
                                 !.pid.output = output,
                                 !.pid.last_time = w.now,
                                 !.pid.last_input = current_temp]

pid_update(w, current_temp) ==
    IF ~w.pid.enabled
    THEN [w EXCEPT !.pid.output = 0]
    ELSE IF w.pid.last_time = 0
    THEN [w EXCEPT !.pid.last_time = w.now, !.pid.last_input = current_temp]
    ELSE LET dt == Since(w.now, w.pid.last_time)   \* milliseconds
         IN  IF dt <= 0
             THEN w
             ELSE LET error == w.pid.setpoint - current_temp
                      w1 == pid_auto_tune(w, current_temp)
                      kp == w1.pid.kp
                      ki == w1.pid.ki
                      kd == w1.pid.kd
                      max_integral == CDiv(PID_OUTPUT_MAX * 1000, ki)
                      i0 == w1.pid.integral + error * dt
                      integral == IF i0 > max_integral THEN max_integral
                                  ELSE IF i0 < -max_integral THEN -max_integral
                                  ELSE i0
                      \* the terms in thousandths of an output unit
                      p_term == kp * error * 1000
                      i_term == ki * integral
                      q == kd * (current_temp - w1.pid.last_input) * 1000
                      d_input == (Abs(q) \div dt) * 1000 + ((Abs(q) % dt) * 1000) \div dt
                      d_term == IF q >= 0 THEN -d_input ELSE d_input
                      sum == p_term + i_term + d_term
                      output == IF sum > PID_OUTPUT_MAX * 1000 THEN PID_OUTPUT_MAX
                                ELSE IF sum < PID_OUTPUT_MIN * 1000 THEN PID_OUTPUT_MIN
                                ELSE CDiv(sum, 1000)
                  IN  [w1 EXCEPT !.pid.integral = integral,
                                 !.pid.output = output,
                                 !.pid.last_time = w.now,
                                 !.pid.last_input = current_temp]

pid_get_output(w) == w.pid.output

\* pid_get_kp(), pid_get_ki(), pid_get_kd()
pid_get_tunings(w) == <<w.pid.kp, w.pid.ki, w.pid.kd>>

pid_reset(w) ==
    [w EXCEPT !.pid.integral = 0, !.pid.last_input = 0,
              !.pid.last_time = 0, !.pid.output = 0]

pid_enable(w) == [w EXCEPT !.pid.enabled = TRUE, !.pid.last_time = 0]

\* variant: pid_disable() leaves _output as it is
pid_disable_keeps_output(w) == [w EXCEPT !.pid.enabled = FALSE]

pid_disable(w) == [w EXCEPT !.pid.enabled = FALSE, !.pid.output = 0]

(***************************************************************************)
(* state.cpp: entry and exit actions                                       *)
(***************************************************************************)
exit_state(w, old_state) ==
    IF old_state = "MANUAL"
    THEN [w EXCEPT !.sm.manual_heater_power = 0]
    ELSE w

\* variant: the OFF entry action keeps the roast epoch
enter_OFF_keeps_epoch(w) ==
    LET w1 == pid_disable(heater_disable(fan_disable(w)))
    IN  reset_ror([w1 EXCEPT !.sm.first_crack_marked = FALSE,
                             !.sm.first_crack_time = 0])

enter_OFF(w) ==
    LET w1 == pid_disable(heater_disable(fan_disable(w)))
    IN  reset_ror([w1 EXCEPT !.sm.roast_start_time = 0,
                             !.sm.first_crack_marked = FALSE,
                             !.sm.first_crack_time = 0])

enter_FAN_ONLY(w) ==
    LET w1 == pid_disable(heater_disable(w))
    IN  fan_enable(fan_set_speed(w1, w1.sm.fan_only_speed))

\* variant: the PREHEAT entry action without pid_reset()
enter_PREHEAT_no_pid_reset(w) ==
    LET w1 == [w EXCEPT !.sm.roast_start_time = w.now,
                        !.sm.preheat_start_time = w.now]
        w2 == fan_enable(fan_set_speed(w1, FAN_PREHEAT_DUTY))
        w3 == pid_enable(pid_set_setpoint(w2, w2.sm.preheat_target))
    IN  heater_enable(w3)

enter_PREHEAT(w) ==
    LET w1 == [w EXCEPT !.sm.roast_start_time = w.now,
                        !.sm.preheat_start_time = w.now]
        w2 == fan_enable(fan_set_speed(w1, FAN_PREHEAT_DUTY))
        w3 == pid_enable(pid_reset(pid_set_setpoint(w2, w2.sm.preheat_target)))
    IN  heater_enable(w3)

\* variant: the ROASTING entry action restarts the roast epoch
enter_ROASTING_restarts_epoch(w) ==
    LET w1 == [w EXCEPT !.sm.roast_start_time = w.now,
                        !.sm.first_crack_marked = FALSE,
                        !.sm.first_crack_time = 0]
        w2 == pid_enable(pid_reset(pid_set_setpoint(w1, w1.sm.setpoint)))
        w3 == fan_enable(fan_set_speed(w2, FAN_ROAST_DEFAULT))
    IN  reset_ror(heater_enable(w3))

enter_ROASTING(w) ==
    LET w1 == [w EXCEPT !.sm.first_crack_marked = FALSE,
                        !.sm.first_crack_time = 0]
        w2 == pid_enable(pid_reset(pid_set_setpoint(w1, w1.sm.setpoint)))
        w3 == fan_enable(fan_set_speed(w2, FAN_ROAST_DEFAULT))
    IN  reset_ror(heater_enable(w3))

\* variant: the COOLING entry action without heater_disable()
enter_COOLING_heater_kept(w) ==
    fan_enable(fan_set_speed(pid_disable(w), FAN_COOLING_DUTY))

enter_COOLING(w) ==
    LET w1 == pid_disable(heater_disable(w))
    IN  fan_enable(fan_set_speed(w1, FAN_COOLING_DUTY))

enter_MANUAL(w) ==
    LET w1 == [w EXCEPT !.sm.manual_fan_speed = MANUAL_FAN_DEFAULT,
                        !.sm.manual_heater_power = 0]
        w2 == fan_enable(fan_set_speed(w1, w1.sm.manual_fan_speed))
        w3 == heater_enable(heater_set_power(w2, 0))
    IN  pid_disable(w3)

\* variant: the ERROR entry action without heater_disable()
enter_ERROR_heater_kept(w) ==
    Emit(pid_disable(fan_disable(w)),
         [type |-> "log", level |-> "error", source |-> "STATE", msg |-> w.sm.error_code])

enter_ERROR(w) ==
    Emit(pid_disable(heater_disable(fan_disable(w))),
         [type |-> "log", level |-> "error", source |-> "STATE", msg |-> w.sm.error_code])

enter_state(w, new_state) ==
    IF new_state = w.sm.phase
    THEN w
    ELSE LET w1 == [exit_state(w, w.sm.phase) EXCEPT !.sm.phase = new_state]
         IN  CASE new_state = "OFF"      -> enter_OFF(w1)
               [] new_state = "FAN_ONLY" -> enter_FAN_ONLY(w1)
               [] new_state = "PREHEAT"  -> enter_PREHEAT(w1)
               [] new_state = "ROASTING" -> enter_ROASTING(w1)
               [] new_state = "COOLING"  -> enter_COOLING(w1)
               [] new_state = "MANUAL"   -> enter_MANUAL(w1)
               [] new_state = "ERROR"    -> enter_ERROR(w1)

\* variant: state_enter_error() without the copy of the code
state_enter_error_code_lost(w, code, fatal) ==
    enter_state([w EXCEPT !.sm.error_fatal = fatal], "ERROR")

state_enter_error(w, code, fatal) ==
    enter_state([w EXCEPT !.sm.error_code = code, !.sm.error_fatal = fatal], "ERROR")

(***************************************************************************)
(* safety.cpp: latch                                                       *)
(***************************************************************************)
safety_clear_fault(w) ==
    [w EXCEPT !.saf.fault_active = FALSE, !.saf.fault_code = "",
              !.saf.fault_fatal = FALSE]

safety_trigger_fault(w, code, fatal) ==
    IF w.saf.fault_active
    THEN w
    ELSE LET w1 == [w EXCEPT !.saf.fault_active = TRUE,
                             !.saf.fault_fatal = fatal,
                             !.saf.fault_code = code]
             w2 == Emit(w1, [type |-> "log", level |-> "error", source |-> "SAFETY",
                             msg |-> code])
         IN  state_enter_error(w2, code, fatal)

(***************************************************************************)
(* state.cpp: events                                                       *)
(* Of the debug line state_handle_event logs for every event, the one for  *)
(* DISCONNECTED is kept: the other events are dispatched by a line and are *)
(* identified by it.                                                       *)
(***************************************************************************)
\* variant: a setpoint change is allowed in every phase
state_allows_setpoint_change_any_phase(w) == TRUE

state_allows_setpoint_change(w) == w.sm.phase \in {"OFF", "PREHEAT", "ROASTING"}

state_allows_fan_change(w) == w.sm.phase \in {"FAN_ONLY", "PREHEAT", "ROASTING", "MANUAL"}

state_allows_heater_change(w) == w.sm.phase = "MANUAL"

state_is_pid_enabled(w) == w.sm.phase \in {"PREHEAT", "ROASTING"}

\* variant: state_get_setpoint() returns the roast setpoint in every phase
state_get_setpoint_roast_only(w) == w.sm.setpoint

state_get_setpoint(w) ==
    IF w.sm.phase = "PREHEAT" THEN w.sm.preheat_target ELSE w.sm.setpoint

state_get_roast_time_ms(w) ==
    IF w.sm.phase \in {"PREHEAT", "ROASTING", "COOLING"} /\ w.sm.roast_start_time > 0
    THEN Since(w.now, w.sm.roast_start_time)
    ELSE 0

\* variant: SET_SETPOINT in PREHEAT also restarts the preheat epoch
handle_SET_SETPOINT_restarts_epoch(w, value) ==
    IF state_allows_setpoint_change(w) /\ value > 0
    THEN LET w1 == [w EXCEPT !.sm.setpoint = value]
         IN  IF w.sm.phase = "PREHEAT"
             THEN pid_set_setpoint([w1 EXCEPT !.sm.preheat_target = value,
                                              !.sm.preheat_start_time = w.now], value)
             ELSE IF w.sm.phase = "ROASTING"
             THEN pid_set_setpoint(w1, value)
             ELSE w1
    ELSE w

handle_SET_SETPOINT(w, value) ==
    IF state_allows_setpoint_change(w) /\ value > 0
    THEN LET w1 == [w EXCEPT !.sm.setpoint = value]
         IN  IF w.sm.phase = "PREHEAT"
             THEN pid_set_setpoint([w1 EXCEPT !.sm.preheat_target = value], value)
             ELSE IF w.sm.phase = "ROASTING"
             THEN pid_set_setpoint(w1, value)
             ELSE w1
    ELSE w

\* variant: SET_FAN_SPEED without the roast minimum
handle_SET_FAN_SPEED_no_floor(w, value) ==
    IF state_allows_fan_change(w)
    THEN LET speed == IF U8(value) > 100 THEN 100 ELSE U8(value)
         IN  IF w.sm.phase = "MANUAL"
             THEN fan_set_speed([w EXCEPT !.sm.manual_fan_speed = speed], speed)
             ELSE IF w.sm.phase = "FAN_ONLY"
             THEN fan_set_speed([w EXCEPT !.sm.fan_only_speed = speed], speed)
             ELSE fan_set_speed(w, speed)
    ELSE w

handle_SET_FAN_SPEED(w, value) ==
    IF state_allows_fan_change(w)
    THEN LET speed == IF U8(value) > 100 THEN 100 ELSE U8(value)
         IN  IF w.sm.phase = "MANUAL"
             THEN fan_set_speed([w EXCEPT !.sm.manual_fan_speed = speed], speed)
             ELSE IF w.sm.phase = "FAN_ONLY"
             THEN fan_set_speed([w EXCEPT !.sm.fan_only_speed = speed], speed)
             ELSE IF w.sm.phase \in {"PREHEAT", "ROASTING"}
             THEN fan_set_speed(w, IF speed < FAN_ROAST_MIN_DUTY
                                   THEN FAN_ROAST_MIN_DUTY ELSE speed)
             ELSE w
    ELSE w

handle_SET_HEATER_POWER(w, value) ==
    IF state_allows_heater_change(w) /\ w.sm.phase = "MANUAL"
    THEN LET power == IF U8(value) > 100 THEN 100 ELSE U8(value)
         IN  heater_set_power([w EXCEPT !.sm.manual_heater_power = power], power)
    ELSE w

\* variant: a disconnect in MANUAL enters COOLING
handle_DISCONNECTED_manual_cools(w) ==
    IF w.sm.phase \in {"ROASTING", "PREHEAT", "MANUAL"}
    THEN enter_state(w, "COOLING")
    ELSE IF w.sm.phase = "FAN_ONLY"
    THEN enter_state(w, "OFF")
    ELSE w

handle_DISCONNECTED(w) ==
    IF w.sm.phase \in {"ROASTING", "PREHEAT"}
    THEN enter_state(w, "COOLING")
    ELSE IF w.sm.phase \in {"MANUAL", "FAN_ONLY"}
    THEN enter_state(w, "OFF")
    ELSE w

\* variant: CLEAR_FAULT without safety_clear_fault()
handle_CLEAR_FAULT_keeps_latch(w) ==
    IF w.sm.phase = "ERROR"
    THEN enter_state([w EXCEPT !.sm.error_code = "", !.sm.error_fatal = FALSE], "OFF")
    ELSE w

handle_CLEAR_FAULT(w) ==
    IF w.sm.phase = "ERROR"
    THEN enter_state([safety_clear_fault(w) EXCEPT !.sm.error_code = "",
                                                  !.sm.error_fatal = FALSE], "OFF")
    ELSE w

\* variant: STOP is also accepted in ERROR
handle_STOP_leaves_error(w) ==
    IF w.sm.phase # "OFF"
    THEN enter_state(w, "OFF") ELSE w

handle_STOP(w) ==
    IF w.sm.phase # "OFF" /\ w.sm.phase # "ERROR"
    THEN enter_state(w, "OFF") ELSE w

\* variant: FIRST_CRACK without the once-only guard
handle_FIRST_CRACK_every_time(w) ==
    IF w.sm.phase = "ROASTING"
    THEN [w EXCEPT !.sm.first_crack_marked = TRUE,
                   !.sm.first_crack_time = Since(w.now, w.sm.roast_start_time)]
    ELSE w

handle_FIRST_CRACK(w) ==
    IF w.sm.phase = "ROASTING" /\ ~w.sm.first_crack_marked
    THEN [w EXCEPT !.sm.first_crack_marked = TRUE,
                   !.sm.first_crack_time = Since(w.now, w.sm.roast_start_time)]
    ELSE w

state_handle_event(w, event, value) ==
    CASE event = "STOP" -> handle_STOP(w)
      [] event = "START_FAN_ONLY" ->
            IF w.sm.phase = "OFF"
            THEN enter_state(IF value > 0 /\ value <= 100
                             THEN [w EXCEPT !.sm.fan_only_speed = U8(value)]
                             ELSE w, "FAN_ONLY")
            ELSE w
      [] event = "EXIT_FAN_ONLY" ->
            IF w.sm.phase = "FAN_ONLY" THEN enter_state(w, "OFF") ELSE w
      [] event = "START_PREHEAT" ->
            IF w.sm.phase \in {"OFF", "FAN_ONLY"}
            THEN enter_state(IF value > 0
                             THEN [w EXCEPT !.sm.preheat_target = value]
                             ELSE w, "PREHEAT")
            ELSE w
      [] event = "LOAD_BEANS" ->
            IF w.sm.phase = "PREHEAT"
            THEN enter_state(IF value > 0
                             THEN [w EXCEPT !.sm.setpoint = value]
                             ELSE w, "ROASTING")
            ELSE w
      [] event = "END_ROAST" ->
            IF w.sm.phase = "ROASTING" THEN enter_state(w, "COOLING") ELSE w
      [] event = "FIRST_CRACK" -> handle_FIRST_CRACK(w)
      [] event = "COOL_COMPLETE" ->
            IF w.sm.phase = "COOLING" THEN enter_state(w, "OFF") ELSE w
      [] event = "ENTER_MANUAL" ->
            IF w.sm.phase = "OFF" THEN enter_state(w, "MANUAL") ELSE w
      [] event = "EXIT_MANUAL" ->
            IF w.sm.phase = "MANUAL" THEN enter_state(w, "OFF") ELSE w
      [] event = "FAULT" -> w
      [] event = "CLEAR_FAULT" -> handle_CLEAR_FAULT(w)
      [] event = "SET_SETPOINT" -> handle_SET_SETPOINT(w, value)
      [] event = "SET_FAN_SPEED" -> handle_SET_FAN_SPEED(w, value)
      [] event = "SET_HEATER_POWER" -> handle_SET_HEATER_POWER(w, value)
      [] event = "DISCONNECTED" ->
            handle_DISCONNECTED(Emit(w, [type |-> "log", level |-> "debug",
                                         source |-> "STATE", msg |-> "DISCONNECTED"]))
      [] OTHER -> w

\* variant: cooling completes at the target temperature itself
state_update_COOLING_at_target(w, chamber_temp) ==
    IF chamber_temp <= COOLING_TARGET_TEMP
    THEN state_handle_event(w, "COOL_COMPLETE", 0)
    ELSE w

\* the COOLING case of state_update
state_update_COOLING(w, chamber_temp) ==
    IF chamber_temp < COOLING_TARGET_TEMP
    THEN state_handle_event(w, "COOL_COMPLETE", 0)
    ELSE w

\* r: the thermocouple frame read by this call
state_update(w, r) ==
    LET rd == thermocouple_read_filtered(w, r)
        chamber_temp == rd.v
        w1 == rd.w
    IN  CASE w1.sm.phase = "PREHEAT" ->
               LET w2 == pid_update(w1, chamber_temp)
                   w3 == heater_update(heater_set_pid_output(w2, pid_get_output(w2)))
               IN  IF Since(w3.now, w3.sm.preheat_start_time) > PREHEAT_TIMEOUT_MS
                   THEN safety_trigger_fault(w3, "PREHEAT_TIMEOUT", TRUE)
                   ELSE w3
          [] w1.sm.phase = "ROASTING" ->
               LET w2 == pid_update(w1, chamber_temp)
               IN  heater_update(heater_set_pid_output(w2, pid_get_output(w2)))
          [] w1.sm.phase = "COOLING" -> state_update_COOLING(w1, chamber_temp)
          [] w1.sm.phase = "MANUAL" -> heater_update(w1)
          [] OTHER -> w1

(***************************************************************************)
(* safety.cpp: checks.  Each returns the world after the check and the     *)
(* function's boolean result.                                              *)
(***************************************************************************)
\* variant: the fault is raised from the warning level
safety_check_chamber_temp_at_warn(w, temp) ==
    IF temp >= WARN_CHAMBER_TEMP
    THEN [w |-> safety_trigger_fault(w, "OVER_TEMP_CHAMBER", TRUE), ok |-> FALSE]
    ELSE [w |-> w, ok |-> TRUE]

\* temp is never NAN: thermocouple_read_filtered returns the filter value
safety_check_chamber_temp(w, temp) ==
    IF temp >= MAX_CHAMBER_TEMP
    THEN [w |-> safety_trigger_fault(w, "OVER_TEMP_CHAMBER", TRUE), ok |-> FALSE]
    ELSE IF temp >= WARN_CHAMBER_TEMP
    THEN [w |-> Emit(w, [type |-> "log", level |-> "warn", source |-> "SAFETY",
                         msg |-> "Chamber temp high"]),
          ok |-> TRUE]
    ELSE [w |-> w, ok |-> TRUE]

safety_check_fan_for_heater(w, fan_percent, heater_on) ==
    IF ~heater_on
    THEN [w |-> w, ok |-> TRUE]
    ELSE IF fan_percent < MIN_FAN_WHEN_HEATING /\ ~w.hw.fan_enabled
    THEN [w |-> safety_trigger_fault(w, "FAN_INTERLOCK", TRUE), ok |-> FALSE]
    ELSE [w |-> w, ok |-> TRUE]

\* bits of a fault mask 0..7
Bit0(m) == m % 2 = 1
Bit1(m) == (m \div 2) % 2 = 1
Bit2(m) == (m \div 4) % 2 = 1

\* variant: every fault bit is critical
is_critical_any_bit(fault) == TRUE

is_critical(fault) ==
    IF Bit0(fault) THEN TRUE
    ELSE IF Bit1(fault) THEN FALSE
    ELSE IF Bit2(fault) THEN TRUE
    ELSE TRUE

safety_check_thermocouple(w) ==
    LET fault == thermocouple_get_fault(w)
    IN  IF fault = 0
        THEN LET good_count == U8(w.saf.good_count + 1)
             IN  [w |-> IF good_count >= GOOD_THRESHOLD
                        THEN [w EXCEPT !.saf.fault_count = 0, !.saf.last_fault = 0,
                                       !.saf.good_count = 0,
                                       !.saf.warning_logged = FALSE]
                        ELSE [w EXCEPT !.saf.good_count = good_count],
                  ok |-> TRUE]
        ELSE LET same == (fault = w.saf.last_fault)
                 fault_count == IF same THEN U8(w.saf.fault_count + 1) ELSE 1
                 w1 == [w EXCEPT !.saf.good_count = 0,
                                 !.saf.fault_count = fault_count,
                                 !.saf.last_fault = fault,
                                 !.saf.warning_logged = IF same THEN @ ELSE FALSE]
             IN  IF fault_count < FAULT_THRESHOLD
                 THEN [w |-> w1, ok |-> TRUE]
                 ELSE IF is_critical(fault) /\ w1.hw.heater_enabled
                 THEN [w |-> safety_trigger_fault(w1, "THERMOCOUPLE_FAULT", TRUE),
                       ok |-> FALSE]
                 ELSE [w |-> IF ~w1.saf.warning_logged
                             THEN Emit([w1 EXCEPT !.saf.warning_logged = TRUE],
                                       [type |-> "log", level |-> "warn",
                                        source |-> "SAFETY",
                                        msg |-> "Persistent thermocouple"])
                             ELSE w1,
                       ok |-> TRUE]

\* variant: a latched fault is dropped by the next evaluation
safety_update_drops_latch(w, r) ==
    IF w.saf.fault_active
    THEN safety_clear_fault(w)
    ELSE LET rd == thermocouple_read_filtered(w, r)
             c1 == safety_check_chamber_temp(rd.w, rd.v)
             c2 == safety_check_fan_for_heater(c1.w, c1.w.hw.fan_speed,
                                               c1.w.hw.heater_enabled)
             c3 == safety_check_thermocouple(c2.w)
         IN  IF ~c1.ok THEN c1.w
             ELSE IF ~c2.ok THEN c2.w
             ELSE c3.w

\* r: the thermocouple frame read by this call
safety_update(w, r) ==
    IF w.saf.fault_active
    THEN w
    ELSE LET rd == thermocouple_read_filtered(w, r)
             c1 == safety_check_chamber_temp(rd.w, rd.v)
             c2 == safety_check_fan_for_heater(c1.w, c1.w.hw.fan_speed,
                                               c1.w.hw.heater_enabled)
             c3 == safety_check_thermocouple(c2.w)
         IN  IF ~c1.ok THEN c1.w
             ELSE IF ~c2.ok THEN c2.w
             ELSE c3.w

(***************************************************************************)
(* serial_comm.cpp                                                         *)
(* An inbound line is a record [type, has, value]: the command type, and   *)
(* whether the numeric key the command looks for is present, with its      *)
(* value.  A line whose type is not a command stands for any inbound bytes *)
(* that dispatch nothing.                                                  *)
(***************************************************************************)
\* r1: frame read by thermocouple_read_filtered, r2: by calculate_ror
serial_send_state(w, r1, r2) ==
    LET state == w.sm.phase
        rd == thermocouple_read_filtered(w, r1)
        w1 == rd.w
        w2 == calculate_ror(w1, r2)
    IN  Emit(w2, [type |-> "roasterState",
                  state |-> state,
                  chamberTemp |-> rd.v,
                  setpoint |-> state_get_setpoint(w1),
                  fanSpeed |-> w1.hw.fan_speed,
                  heaterPower |-> w1.hw.heater_power,
                  heaterEnabled |-> w1.hw.heater_enabled,
                  pidEnabled |-> state_is_pid_enabled(w1),
                  roastTimeMs |-> state_get_roast_time_ms(w1),
                  firstCrackMarked |-> w1.sm.first_crack_marked,
                  firstCrackTimeMs |-> w1.sm.first_crack_time,
                  ror |-> w2.hw.ror_value,
                  error |-> IF state = "ERROR" THEN w1.sm.error_code ELSE ""])

serial_send_event(w, event, r) ==
    LET rd == thermocouple_read_filtered(w, r)
    IN  Emit(rd.w, [type |-> "roastEvent", event |-> event,
                    roastTimeMs |-> state_get_roast_time_ms(w),
                    chamberTemp |-> rd.v])

serial_send_connected(w) == Emit(w, [type |-> "connected"])

\* number of thermocouple frames the handling of a line reads
ReadsOf(line) ==
    IF line.type = "getState" THEN 2
    ELSE IF line.type = "markFirstCrack" THEN 1
    ELSE 0

\* rs: the frames read while handling the line, in order
parseCommand(w, line, rs) ==
    CASE line.type = "startPreheat" ->
            state_handle_event(w, "START_PREHEAT",
                               IF line.has THEN line.value ELSE DEFAULT_PREHEAT_TEMP)
      [] line.type = "loadBeans" ->
            state_handle_event(w, "LOAD_BEANS",
                               IF line.has THEN line.value ELSE DEFAULT_ROAST_SETPOINT)
      [] line.type = "endRoast" -> state_handle_event(w, "END_ROAST", 0)
      [] line.type = "markFirstCrack" ->
            serial_send_event(state_handle_event(w, "FIRST_CRACK", 0), "FIRST_CRACK", rs[1])
      [] line.type = "stop" -> state_handle_event(w, "STOP", 0)
      [] line.type = "enterFanOnly" ->
            state_handle_event(w, "START_FAN_ONLY",
                               IF line.has THEN line.value ELSE FAN_ONLY_DEFAULT)
      [] line.type = "exitFanOnly" -> state_handle_event(w, "EXIT_FAN_ONLY", 0)
      [] line.type = "enterManual" -> state_handle_event(w, "ENTER_MANUAL", 0)
      [] line.type = "exitManual" -> state_handle_event(w, "EXIT_MANUAL", 0)
      [] line.type = "clearFault" -> state_handle_event(w, "CLEAR_FAULT", 0)
      [] line.type = "setSetpoint" ->
            IF line.has THEN state_handle_event(w, "SET_SETPOINT", line.value) ELSE w
      [] line.type = "setFanSpeed" ->
            IF line.has THEN state_handle_event(w, "SET_FAN_SPEED", line.value) ELSE w
      [] line.type = "setHeaterPower" ->
            IF line.has THEN state_handle_event(w, "SET_HEATER_POWER", line.value) ELSE w
      [] line.type = "getState" -> serial_send_state(w, rs[1], rs[2])
      [] line.type = "debugFan" -> fan_debug_dump(w)
      [] line.type = "testFanPins" -> fan_test_direct(w)
      [] OTHER -> w

\* variant: an inbound line does not mark the connection active
serial_receive_line_not_armed(w, line, rs) ==
    parseCommand([w EXCEPT !.ser.lastDataReceived = w.now], line, rs)

\* one pass of the while loop of serial_comm_update that completes a line
serial_receive_line(w, line, rs) ==
    LET w1 == [w EXCEPT !.ser.lastDataReceived = w.now]
        w2 == IF ~w1.ser.connectionActive
              THEN serial_send_connected([w1 EXCEPT !.ser.connectionActive = TRUE])
              ELSE w1
    IN  parseCommand(w2, line, rs)

\* Inbound bytes: "LF" and "CR" are the line-end bytes, "x" is a byte that
\* is part of no command text, and a byte that is a command type stands for
\* the text "type":"<that type>", which takes one place of the buffer.
\* inputBuffer holds the bytes inputBuffer[0 .. bufferIndex-1].
\* the command texts in the order in which parseCommand looks for them
CommandOrder ==
    <<"startPreheat", "loadBeans", "endRoast", "markFirstCrack", "stop",
      "enterFanOnly", "exitFanOnly", "enterManual", "exitManual", "clearFault",
      "setSetpoint", "setFanSpeed", "setHeaterPower", "getState",
      "debugFan", "testFanPins">>

\* String(inputBuffer) as parseCommand reads it: the first command text, in
\* parseCommand's order, that occurs anywhere in the buffer, with no
\* numeric key
LineOf(buffer) ==
    LET found == {i \in DOMAIN CommandOrder :
                     \E j \in DOMAIN buffer : buffer[j] = CommandOrder[i]}
    IN  [type |-> IF found = {} THEN "noise"
                  ELSE CommandOrder[CHOOSE i \in found : \A k \in found : i <= k],
         has |-> FALSE, value |-> 0]

\* one pass of the while loop of serial_comm_update, for the byte c
serial_receive_byte(w, c) ==
    LET w1 == [w EXCEPT !.ser.lastDataReceived = w.now]
        w2 == IF ~w1.ser.connectionActive
              THEN serial_send_connected([w1 EXCEPT !.ser.connectionActive = TRUE])
              ELSE w1
    IN  IF c = "LF"
        THEN LET w3 == IF Len(w2.ser.inputBuffer) > 0
                       THEN parseCommand(w2, LineOf(w2.ser.inputBuffer), <<>>)
                       ELSE w2
             IN  [w3 EXCEPT !.ser.inputBuffer = <<>>]
        ELSE IF c # "CR"
        THEN IF Len(w2.ser.inputBuffer) < INPUT_BUFFER_SIZE - 1
             THEN [w2 EXCEPT !.ser.inputBuffer = Append(@, c)]
             ELSE [w2 EXCEPT !.ser.inputBuffer = <<>>]
        ELSE w2

\* the while loop of serial_comm_update over the available bytes i..j (the
\* range is halved so that the evaluation does not nest once per byte, and
\* the first half is computed before the second starts)
RECURSIVE serial_receive_bytes(_, _, _, _)
serial_receive_bytes(w, bytes, i, j) ==
    IF i > j THEN w
    ELSE IF i = j THEN serial_receive_byte(w, bytes[i])
    ELSE LET mid == (i + j) \div 2
             w1 == serial_receive_bytes(w, bytes, i, mid)
         IN  IF w1.now = w.now
             THEN serial_receive_bytes(w1, bytes, mid + 1, j)
             ELSE w1

\* the periodic roasterState message is due
state_update_due(w) == Since(w.now, w.ser.lastStateUpdate) >= STATE_UPDATE_INTERVAL

\* variant: the timeout leaves _connectionActive set
serial_timeout_and_send_stays_active(w, rs) ==
    LET w1 == IF w.ser.connectionActive
                 /\ Since(w.now, w.ser.lastDataReceived) > SERIAL_TIMEOUT_MS
              THEN state_handle_event(w, "DISCONNECTED", 0)
              ELSE w
    IN  IF state_update_due(w1)
        THEN [serial_send_state(w1, rs[1], rs[2]) EXCEPT !.ser.lastStateUpdate = w1.now]
        ELSE w1

\* serial_comm_update after the while loop: timeout check, periodic state;
\* rs: the two frames read if the periodic message is sent
serial_timeout_and_send(w, rs) ==
    LET w1 == IF w.ser.connectionActive
                 /\ Since(w.now, w.ser.lastDataReceived) > SERIAL_TIMEOUT_MS
              THEN state_handle_event([w EXCEPT !.ser.connectionActive = FALSE],
                                      "DISCONNECTED", 0)
              ELSE w
    IN  IF state_update_due(w1)
        THEN [serial_send_state(w1, rs[1], rs[2]) EXCEPT !.ser.lastStateUpdate = w1.now]
        ELSE w1

(***************************************************************************)
(* The loop                                                                *)
(***************************************************************************)
Phases == {"OFF", "FAN_ONLY", "PREHEAT", "ROASTING", "COOLING", "MANUAL", "ERROR"}

\* the world the next call starts from; out collects one step's messages
World == [sm |-> sm, hw |-> hw, saf |-> saf, pid |-> pid, ser |-> ser,
          now |-> now, out |-> <<>>]

Commit(w) ==
    /\ sm' = w.sm
    /\ hw' = w.hw
    /\ saf' = w.saf
    /\ pid' = w.pid
    /\ ser' = w.ser
    /\ out' = w.out

\* state after setup(): serial_comm_init, hardware_init, pid_init,
\* safety_init, state_init, with the two delays elapsed
Init ==
    /\ sm = [phase |-> "OFF",
             setpoint |-> DEFAULT_ROAST_SETPOINT,
             preheat_target |-> DEFAULT_PREHEAT_TEMP,
             roast_start_time |-> 0,
             preheat_start_time |-> 0,
             first_crack_marked |-> FALSE,
             first_crack_time |-> 0,
             error_code |-> "",
             error_fatal |-> FALSE,
             manual_fan_speed |-> MANUAL_FAN_DEFAULT,
             manual_heater_power |-> 0,
             fan_only_speed |-> FAN_ONLY_DEFAULT]
    /\ hw = [fan_enabled |-> FALSE, fan_speed |-> 0, fan_pwm_written |-> 0,
             fan_ena |-> 0,
             heater_enabled |-> FALSE, heater_power |-> 0, heater_pid_output |-> 0,
             heater_window_start |-> SETUP_DELAY_MS - 100, ssr |-> FALSE,
             thermo_fault |-> 0, filtered_temp |-> 0, filter_initialized |-> FALSE,
             ror_last_temp |-> 0, ror_last_time |-> 0, ror_value |-> 0]
    /\ saf = [fault_active |-> FALSE, fault_code |-> "", fault_fatal |-> FALSE,
              fault_count |-> 0, good_count |-> 0, last_fault |-> 0,
              warning_logged |-> FALSE]
    /\ pid = [setpoint |-> DEFAULT_ROAST_SETPOINT,
              kp |-> PID_KP_CONSERVATIVE, ki |-> PID_KI_CONSERVATIVE,
              kd |-> PID_KD_CONSERVATIVE,
              output |-> 0, integral |-> 0, last_input |-> 0,
              enabled |-> FALSE, last_time |-> 0, is_aggressive |-> FALSE]
    /\ ser = [lastDataReceived |-> 0, lastStateUpdate |-> 0,
              connectionActive |-> FALSE, inputBuffer |-> <<>>]
    /\ now = SETUP_DELAY_MS
    /\ pc = "loop"
    /\ out = <<>>

\* the frames the sensor may deliver now, out of R
Offered(R) == {r \in R : r.fault => saf.fault_count < MaxFaultCount}

\* loop() is entered d milliseconds after the previous iteration
LoopBegin(D, maxNow) ==
    /\ pc = "loop"
    /\ \E d \in D :
          /\ now + d <= maxNow
          /\ now' = now + d
    /\ pc' = "serial"
    /\ out' = <<>>
    /\ UNCHANGED <<sm, hw, saf, pid, ser>>

\* serial_comm_update: a complete line is available
ReceiveLine(L, R) ==
    /\ pc = "serial"
    /\ \E line \in L :
          \E rs \in [1..ReadsOf(line) -> Offered(R)] :
             Commit(serial_receive_line(World, line, rs))
    /\ UNCHANGED <<now, pc>>

\* serial_comm_update: a complete line is available whose handling may
\* block the loop, so that the clock has advanced when it returns
ReceiveBlockingLine(L, maxNow) ==
    /\ pc = "serial"
    /\ \E line \in L :
          LET w == serial_receive_line(World, line, <<>>)
          IN  /\ w.now <= maxNow
              /\ Commit(w)
              /\ now' = w.now
    /\ UNCHANGED pc

\* serial_comm_update: the bytes of one of the chunks C are available
ReceiveBytes(C) ==
    /\ pc = "serial"
    /\ \E bytes \in C : Commit(serial_receive_bytes(World, bytes, 1, Len(bytes)))
    /\ UNCHANGED <<now, pc>>

\* serial_comm_update: no more bytes
SerialIdle(R) ==
    /\ pc = "serial"
    /\ \E rs \in [1..(IF state_update_due(World) THEN 2 ELSE 0) -> Offered(R)] :
          Commit(serial_timeout_and_send(World, rs))
    /\ pc' = "safety"
    /\ UNCHANGED now

SafetyUpdate(R) ==
    /\ pc = "safety"
    /\ \E r \in Offered(R) : Commit(safety_update(World, r))
    /\ pc' = "state"
    /\ UNCHANGED now

StateUpdate(R) ==
    /\ pc = "state"
    /\ \E r \in Offered(R) : Commit(state_update(World, r))
    /\ pc' = "loop"
    /\ UNCHANGED now

(***************************************************************************)
(* Environments: the lines the host sends, the frames the thermocouple     *)
(* amplifier delivers and the time between loop iterations.  Each          *)
(* specification runs the same loop in one environment.                    *)
(***************************************************************************)
Cmd(t) == [type |-> t, has |-> FALSE, value |-> 0]
CmdV(t, v) == [type |-> t, has |-> TRUE, value |-> v]

Ok(t) == [fault |-> FALSE, mask |-> 0, temp |-> t]
Bad(m) == [fault |-> TRUE, mask |-> m, temp |-> 0]

\* more than the preheat timeout (and the serial timeout) between iterations
LongStep == PREHEAT_TIMEOUT_MS + 1
\* more than half the preheat timeout
HalfStep == PREHEAT_TIMEOUT_MS \div 2 + 1
\* more than half the serial timeout
ShortStep == SERIAL_TIMEOUT_MS \div 2 + 1

\* every command type, with values that differ from the defaults
Lines ==
    { Cmd("stop"), Cmd("enterFanOnly"), Cmd("exitFanOnly"), Cmd("startPreheat"),
      Cmd("loadBeans"), Cmd("endRoast"), Cmd("markFirstCrack"), Cmd("enterManual"),
      Cmd("exitManual"), Cmd("clearFault"), CmdV("setSetpoint", 150),
      CmdV("setFanSpeed", 20), CmdV("setHeaterPower", 60), Cmd("getState"),
      Cmd("noise") }

\* every command type, with values that restate the defaults
PlainLines ==
    { Cmd("stop"), Cmd("enterFanOnly"), Cmd("exitFanOnly"), Cmd("startPreheat"),
      Cmd("loadBeans"), Cmd("endRoast"), Cmd("markFirstCrack"), Cmd("enterManual"),
      Cmd("exitManual"), Cmd("clearFault"), CmdV("setSetpoint", 200),
      CmdV("setFanSpeed", 50), CmdV("setHeaterPower", 0), Cmd("getState"),
      Cmd("noise") }

\* Spec: all commands, a healthy sensor at 100 degrees, long pauses
Next ==
    \/ LoopBegin({0, LongStep}, MaxNow)
    \/ ReceiveLine(Lines, {Ok(100)})
    \/ SerialIdle({Ok(100)})
    \/ SafetyUpdate({Ok(100)})
    \/ StateUpdate({Ok(100)})

Spec == Init /\ [][Next]_vars

\* SpecSafety: all commands, a sensor that reads 300 degrees or an open
\* circuit, no time passing: over-temperature and thermocouple faults occur
\* in every phase
SafetyReadings == {Ok(300), Bad(1)}

NextSafety ==
    \/ LoopBegin({0}, MaxNow)
    \/ ReceiveLine(PlainLines, SafetyReadings)
    \/ SerialIdle(SafetyReadings)
    \/ SafetyUpdate(SafetyReadings)
    \/ StateUpdate(SafetyReadings)

SpecSafety == Init /\ [][NextSafety]_vars

\* SpecTemp: a chamber that reads 245 or 265 degrees, so that the filtered
\* temperature moves through the warning band and across the limit
TempLines == { Cmd("enterFanOnly"), Cmd("startPreheat"), Cmd("loadBeans"), Cmd("endRoast"),
               Cmd("enterManual"), Cmd("stop"), Cmd("clearFault") }
TempReadings == {Ok(245), Ok(265)}

NextTemp ==
    \/ LoopBegin({0}, MaxNow)
    \/ ReceiveLine(TempLines, TempReadings)
    \/ SerialIdle(TempReadings)
    \/ SafetyUpdate(TempReadings)
    \/ StateUpdate(TempReadings)

SpecTemp == Init /\ [][NextTemp]_vars

\* SpecThermo: heater on and off, every thermocouple fault mask
ThermoLines == { Cmd("enterManual"), Cmd("exitManual"), Cmd("startPreheat"),
                 Cmd("stop"), Cmd("clearFault") }
ThermoReadings == {Ok(100)} \cup {Bad(m) : m \in 1..7}

NextThermo ==
    \/ LoopBegin({0}, MaxNow)
    \/ ReceiveLine(ThermoLines, ThermoReadings)
    \/ SerialIdle(ThermoReadings)
    \/ SafetyUpdate(ThermoReadings)
    \/ StateUpdate(ThermoReadings)

SpecThermo == Init /\ [][NextThermo]_vars

\* SpecPreheat: commands received in PREHEAT, pauses of half the timeout
PreheatLines == { Cmd("startPreheat"), CmdV("startPreheat", 150), CmdV("setSetpoint", 150),
                  CmdV("setFanSpeed", 20), Cmd("clearFault"), Cmd("noise") }

NextPreheat ==
    \/ LoopBegin({0, HalfStep}, MaxNowPreheat)
    \/ ReceiveLine(PreheatLines, {Ok(100)})
    \/ SerialIdle({Ok(100)})
    \/ SafetyUpdate({Ok(100)})
    \/ StateUpdate({Ok(100)})

SpecPreheat == Init /\ [][NextPreheat]_vars

\* SpecWatchdog: a host that goes silent, pauses of half the serial timeout
WatchdogLines == { Cmd("startPreheat"), Cmd("enterManual"), Cmd("noise") }

NextWatchdog ==
    \/ LoopBegin({0, ShortStep}, MaxNowWatchdog)
    \/ ReceiveLine(WatchdogLines, {Ok(100)})
    \/ SerialIdle({Ok(100)})
    \/ SafetyUpdate({Ok(100)})
    \/ StateUpdate({Ok(100)})

SpecWatchdog == Init /\ [][NextWatchdog]_vars

\* SpecDisconnect: a host that goes silent in every phase and comes back,
\* pauses of half the preheat timeout (each longer than the serial
\* timeout), a chamber that reads 49 or 50 degrees, so that cooling lasts or
\* completes
DisconnectLines == { Cmd("enterFanOnly"), Cmd("startPreheat"), Cmd("loadBeans"),
                     Cmd("enterManual"), Cmd("stop"), Cmd("noise") }
DisconnectReadings == {Ok(49), Ok(50)}

NextDisconnect ==
    \/ LoopBegin({0, HalfStep}, MaxNowPreheat)
    \/ ReceiveLine(DisconnectLines, DisconnectReadings)
    \/ SerialIdle(DisconnectReadings)
    \/ SafetyUpdate(DisconnectReadings)
    \/ StateUpdate(DisconnectReadings)

SpecDisconnect == Init /\ [][NextDisconnect]_vars

\* SpecPayload: commands whose numeric payloads lie outside the documented
\* ranges (and within what a uint8_t holds)
PayloadLines == { CmdV("setSetpoint", 50), CmdV("setSetpoint", 255),
                  CmdV("startPreheat", 50), CmdV("loadBeans", 255),
                  CmdV("enterFanOnly", 150), CmdV("setFanSpeed", 200),
                  Cmd("enterManual"), CmdV("setHeaterPower", 200), Cmd("stop") }

NextPayload ==
    \/ LoopBegin({0}, MaxNow)
    \/ ReceiveLine(PayloadLines, {Ok(100)})
    \/ SerialIdle({Ok(100)})
    \/ SafetyUpdate({Ok(100)})
    \/ StateUpdate({Ok(100)})

SpecPayload == Init /\ [][NextPayload]_vars

\* SpecFraming: a host that sends bytes: whole short lines, lines longer
\* than the input buffer with a command text at their end or at their
\* start, and pieces of lines (a buffer's worth of bytes, a line end)
Filler(n) == [i \in 1..n |-> "x"]

\* short lines carry startPreheat and stop; enterManual is sent in
\* over-long lines only
FramingCommands == {"startPreheat", "stop"}

ShortLine(c) == <<c, "LF">>

LongLineTail(c) == Filler(INPUT_BUFFER_SIZE) \o <<c, "LF">>

LongLineHead(c) == <<c>> \o Filler(INPUT_BUFFER_SIZE) \o <<"LF">>

LongLines == {LongLineTail("enterManual"), LongLineHead("enterManual")}

\* the host starts a piece of a line only at the start of a line
FramingChunks ==
    {ShortLine(c) : c \in FramingCommands} \cup LongLines \cup {<<"CR", "LF">>}
        \cup (IF ser.inputBuffer = <<>> THEN {Filler(INPUT_BUFFER_SIZE - 1)} ELSE {})

NextFraming ==
    \/ LoopBegin({0}, MaxNow)
    \/ ReceiveBytes(FramingChunks)
    \/ SerialIdle({Ok(100)})
    \/ SafetyUpdate({Ok(100)})
    \/ StateUpdate({Ok(100)})

SpecFraming == Init /\ [][NextFraming]_vars

\* SpecWindow: manual heater power and preheating, loop iterations a
\* quarter of the heater window apart
TickStep == PID_WINDOW_SIZE_MS \div 4

WindowLines == { Cmd("enterManual"), CmdV("setHeaterPower", 60), Cmd("startPreheat"),
                 Cmd("stop") }

NextWindow ==
    \/ LoopBegin({TickStep}, MaxNowWindow)
    \/ ReceiveLine(WindowLines, {Ok(100)})
    \/ SerialIdle({Ok(100)})
    \/ SafetyUpdate({Ok(100)})
    \/ StateUpdate({Ok(100)})

SpecWindow == Init /\ [][NextWindow]_vars

\* SpecShorted: a thermocouple shorted to GND from power-up on (every read
\* returns fault mask 0x02); the host starts heating before the first safety
\* read and may stop at any time
ShortedReadings == {Bad(2)}

ShortedLines ==
    {Cmd("stop"), Cmd("noise")}
        \cup (IF saf.fault_count = 0
              THEN {Cmd("enterManual"), Cmd("startPreheat"), Cmd("loadBeans")}
              ELSE {})

NextShorted ==
    \/ LoopBegin({0}, MaxNow)
    \/ ReceiveLine(ShortedLines, ShortedReadings)
    \/ SerialIdle(ShortedReadings)
    \/ SafetyUpdate(ShortedReadings)
    \/ StateUpdate(ShortedReadings)

SpecShorted == Init /\ [][NextShorted]_vars

\* SpecTune: preheating at 100 degrees with targets 1, 10, 11 and 50
\* degrees above the chamber temperature, pauses of half the serial timeout
TuneLines == { CmdV("startPreheat", 101), CmdV("setSetpoint", 101),
               CmdV("setSetpoint", 110), CmdV("setSetpoint", 111),
               CmdV("setSetpoint", 150), Cmd("stop") }

NextTune ==
    \/ LoopBegin({0, ShortStep}, MaxNowWatchdog)
    \/ ReceiveLine(TuneLines, {Ok(100)})
    \/ SerialIdle({Ok(100)})
    \/ SafetyUpdate({Ok(100)})
    \/ StateUpdate({Ok(100)})

SpecTune == Init /\ [][NextTune]_vars

\* SpecDebug: a host that uses the fan debug commands in every phase that
\* runs the fan or the heater
DebugLines == { Cmd("debugFan"), Cmd("testFanPins") }

DebugSessionLines == { Cmd("enterFanOnly"), Cmd("startPreheat"), Cmd("loadBeans"),
                       Cmd("endRoast"), Cmd("enterManual"), CmdV("setFanSpeed", 80),
                       Cmd("stop") }

NextDebug ==
    \/ LoopBegin({0}, MaxNowDebug)
    \/ ReceiveLine(DebugSessionLines, {Ok(100)})
    \/ ReceiveBlockingLine(DebugLines, MaxNowDebug)
    \/ SerialIdle({Ok(100)})
    \/ SafetyUpdate({Ok(100)})
    \/ StateUpdate({Ok(100)})

SpecDebug == Init /\ [][NextDebug]_vars

(***************************************************************************)
(* Properties                                                              *)
(***************************************************************************)
\* C1: in every reachable state, phase ERROR implies the heater is disabled
\* with the SSR LOW and the PID-output shadow 0, and the fan is disabled
\* with PWM output 0.
C1_ErrorOutputsOff ==
    sm.phase = "ERROR" =>
        /\ ~hw.heater_enabled
        /\ ~hw.ssr
        /\ hw.heater_pid_output = 0
        /\ ~hw.fan_enabled
        /\ hw.fan_pwm_written = 0

\* ERROR was entered on a thermocouple fault (so with the heater on) and a
\* whole iteration has since run in ERROR
C1_Witness ==
    /\ sm.phase = "ERROR"
    /\ sm.error_code = "THERMOCOUPLE_FAULT"
    /\ pc = "loop"

\* C2: in every reachable state, heater enabled and phase not MANUAL imply
\* fan enabled and fan speed >= MIN_FAN_WHEN_HEATING (40).
C2_MinFanWhenHeating ==
    (hw.heater_enabled /\ sm.phase # "MANUAL") =>
        (hw.fan_enabled /\ hw.fan_speed >= MIN_FAN_WHEN_HEATING)

\* C3: a safety check that runs with no fault latched, the heater enabled and
\* the fan disabled or below 40% latches FAN_INTERLOCK and forces ERROR.
C3_InterlockLatches ==
    [][(/\ pc = "safety"
        /\ ~saf.fault_active
        /\ hw.heater_enabled
        /\ (~hw.fan_enabled \/ hw.fan_speed < MIN_FAN_WHEN_HEATING))
       => (/\ saf.fault_active'
           /\ saf.fault_code' = "FAN_INTERLOCK"
           /\ sm.phase' = "ERROR")]_vars

\* the chamber warning was logged in the step
ChamberWarned(o) ==
    \E i \in DOMAIN o : o[i].type = "log" /\ o[i].msg = "Chamber temp high"

\* C4: a safety evaluation with no fault latched latches OVER_TEMP_CHAMBER
\* and forces ERROR with heater and fan disabled in that step if and only
\* if the filtered chamber temperature is >= 260; a filtered temperature in
\* [250, 260) logs a warning and leaves phase and latch unchanged.
C4_OverTempIff ==
    [][(pc = "safety" /\ ~saf.fault_active) =>
         /\ (saf.fault_code' = "OVER_TEMP_CHAMBER") <=> (hw.filtered_temp' >= MAX_CHAMBER_TEMP)
         /\ (hw.filtered_temp' >= MAX_CHAMBER_TEMP) =>
               /\ saf.fault_active'
               /\ sm.phase' = "ERROR"
               /\ sm.error_code' = "OVER_TEMP_CHAMBER"
               /\ ~hw.heater_enabled' /\ ~hw.ssr'
               /\ ~hw.fan_enabled' /\ hw.fan_pwm_written' = 0
         /\ (hw.filtered_temp' >= WARN_CHAMBER_TEMP /\ hw.filtered_temp' < MAX_CHAMBER_TEMP) =>
               /\ ChamberWarned(out')
               /\ ~saf.fault_active'
               /\ sm.phase' = sm.phase
         /\ (hw.filtered_temp' < WARN_CHAMBER_TEMP) => ~ChamberWarned(out')]_vars

\* the filtered temperature crossed the limit after PREHEAT was entered and
\* the safety evaluation of that iteration has latched
C4_Witness ==
    /\ pc = "state"
    /\ sm.phase = "ERROR"
    /\ sm.error_code = "OVER_TEMP_CHAMBER"
    /\ saf.fault_code = "OVER_TEMP_CHAMBER"
    /\ hw.filtered_temp >= MAX_CHAMBER_TEMP
    /\ hw.filtered_temp < 265
    /\ sm.preheat_start_time > 0

\* the step handles a clearFault line
ClearFaultStep == ReceiveLine({Cmd("clearFault")}, SafetyReadings)

\* C5: a latched fault stays latched, with the same code, across every step
\* other than a CLEAR_FAULT received in ERROR.
C5_LatchPersists ==
    [][saf.fault_active =>
         \/ (saf.fault_active' /\ saf.fault_code' = saf.fault_code
             /\ saf.fault_fatal' = saf.fault_fatal)
         \/ (sm.phase = "ERROR" /\ ClearFaultStep)]_vars

\* a thermocouple fault is latched, the sensor has recovered and now reads
\* above the chamber limit, and an iteration has completed
C5_Witness ==
    /\ saf.fault_active
    /\ saf.fault_code = "THERMOCOUPLE_FAULT"
    /\ hw.thermo_fault = 0
    /\ hw.filtered_temp >= MAX_CHAMBER_TEMP
    /\ pc = "loop"

\* C6 (the case of a fault read that follows a clean read): when the safety
\* read before this one was clean (good_count > 0), this safety read does
\* not latch THERMOCOUPLE_FAULT, since the 10 most recent reads are not all
\* faulted.
C6_NoLatchAfterCleanRead ==
    [][(pc = "safety" /\ ~saf.fault_active /\ saf.good_count > 0)
       => saf.fault_code' # "THERMOCOUPLE_FAULT"]_vars

\* C7: with the heater enabled, a mask with bit 0 or bit 2 set that has been
\* counted FAULT_THRESHOLD times latches THERMOCOUPLE_FAULT and forces ERROR.
C7_CriticalMaskLatches ==
    [][(/\ pc = "safety"
        /\ ~saf.fault_active
        /\ hw.heater_enabled
        /\ hw.thermo_fault' # 0
        /\ (Bit0(hw.thermo_fault') \/ Bit2(hw.thermo_fault'))
        /\ saf.last_fault' = hw.thermo_fault'
        /\ saf.fault_count' >= FAULT_THRESHOLD)
       => (saf.fault_code' = "THERMOCOUPLE_FAULT" /\ sm.phase' = "ERROR")]_vars

C9_PreheatTimeout ==
    /\ [][/\ (pc = "state" /\ sm.phase = "PREHEAT"
              /\ Since(now, sm.preheat_start_time) > PREHEAT_TIMEOUT_MS)
             => (sm.phase' = "ERROR" /\ saf.fault_active'
                 /\ saf.fault_code' = "PREHEAT_TIMEOUT"
                 /\ sm.error_code' = "PREHEAT_TIMEOUT")
          /\ (sm.phase = "PREHEAT" /\ sm.phase' = "PREHEAT")
             => sm.preheat_start_time' = sm.preheat_start_time]_vars
    /\ []((sm.phase = "PREHEAT" /\ pc = "loop")
          => Since(now, sm.preheat_start_time) <= PREHEAT_TIMEOUT_MS)

\* the timeout fired although a SET_SETPOINT was received half way
C9_Witness ==
    /\ sm.phase = "ERROR"
    /\ saf.fault_code = "PREHEAT_TIMEOUT"
    /\ sm.setpoint = 150
    /\ pid.last_time > sm.preheat_start_time
    /\ hw.fan_speed = FAN_ROAST_MIN_DUTY

\* number of DISCONNECTED events delivered to the state machine in the step
Disconnects(o) ==
    Cardinality({i \in DOMAIN o : o[i].type = "log" /\ o[i].msg = "DISCONNECTED"})

\* C10: when the transport is active and the silence exceeds the timeout,
\* the serial update delivers exactly one DISCONNECTED; DISCONNECTED is
\* delivered in no other step, and delivering it disarms the watchdog,
\* which only inbound bytes re-arm.
C10_OneDisconnect ==
    [][/\ (/\ pc = "serial" /\ pc' = "safety"
           /\ ser.connectionActive
           /\ Since(now, ser.lastDataReceived) > SERIAL_TIMEOUT_MS)
          => Disconnects(out') = 1
       /\ (Disconnects(out') > 0)
          => /\ pc = "serial" /\ pc' = "safety"
             /\ ser.connectionActive
             /\ Since(now, ser.lastDataReceived) > SERIAL_TIMEOUT_MS
             /\ ~ser.connectionActive'
       /\ (~ser.connectionActive /\ ser.connectionActive')
          => /\ pc = "serial" /\ pc' = "serial"
             /\ ser.lastDataReceived' = now]_vars

\* the host went silent in PREHEAT, DISCONNECTED moved the roaster to
\* COOLING, and a later iteration has run in the same silence
C10_Witness ==
    /\ ~ser.connectionActive
    /\ ser.lastDataReceived > 0
    /\ Since(now, ser.lastDataReceived) >= 3 * ShortStep
    /\ sm.phase = "COOLING"
    /\ pc = "loop"

\* the actuator and latch part of the controller state
Outputs(h) == <<h.fan_enabled, h.fan_speed, h.fan_pwm_written, h.heater_enabled,
                h.heater_power, h.heater_pid_output, h.ssr>>

\* the step handles a stop line
StopStep == ReceiveLine({Cmd("stop")}, DisconnectReadings)

\* C11: the step that delivers DISCONNECTED moves PREHEAT and ROASTING to
\* COOLING with the heater disabled and the fan enabled at 100%, MANUAL and
\* FAN_ONLY to OFF, and leaves state machine, latch, PID and outputs
\* unchanged in OFF, COOLING and ERROR; COOLING is left only to ERROR on a
\* fault, to OFF on STOP, or to OFF by a state update whose filtered
\* temperature is below COOLING_TARGET_TEMP (so inbound activity other than
\* STOP leaves it COOLING).
C11_DisconnectTransitions ==
    [][/\ (Disconnects(out') = 1) =>
            /\ (sm.phase \in {"PREHEAT", "ROASTING"}) =>
                  /\ sm.phase' = "COOLING"
                  /\ ~hw.heater_enabled' /\ ~hw.ssr'
                  /\ hw.fan_enabled' /\ hw.fan_speed' = FAN_COOLING_DUTY
                  /\ hw.fan_pwm_written' = 255
            /\ (sm.phase \in {"MANUAL", "FAN_ONLY"}) => sm.phase' = "OFF"
            /\ (sm.phase \in {"OFF", "COOLING", "ERROR"}) =>
                  /\ sm' = sm /\ saf' = saf /\ pid' = pid
                  /\ Outputs(hw') = Outputs(hw)
       /\ (sm.phase = "COOLING" /\ sm.phase' # "COOLING") =>
            \/ sm.phase' = "ERROR" /\ saf.fault_active'
            \/ sm.phase' = "OFF" /\ StopStep
            \/ /\ sm.phase' = "OFF" /\ pc = "state"
               /\ hw.filtered_temp' < COOLING_TARGET_TEMP]_vars

\* the host went silent after startPreheat, DISCONNECTED moved the roaster
\* to COOLING, the host has since sent bytes again and an iteration has
\* completed in COOLING
C11_Witness ==
    /\ sm.phase = "COOLING"
    /\ ser.connectionActive
    /\ ser.lastDataReceived > sm.roast_start_time + SERIAL_TIMEOUT_MS
    /\ hw.fan_speed = FAN_COOLING_DUTY
    /\ ~hw.heater_enabled
    /\ pc = "loop"

\* C12: in every reachable state each event of the transition table, handed
\* to the state machine, leads to the table's destination (the phase itself
\* for a blank cell), a fault raised through the safety latch leads to
\* ERROR from every phase but ERROR, and every phase change of a step is an
\* edge of the table.
C12_TransitionTable ==
    /\ [](LET Active == {"FAN_ONLY", "PREHEAT", "ROASTING", "COOLING", "MANUAL"}
              TableEvents == {"STOP", "START_FAN_ONLY", "EXIT_FAN_ONLY", "START_PREHEAT",
                              "LOAD_BEANS", "END_ROAST", "COOL_COMPLETE", "ENTER_MANUAL",
                              "EXIT_MANUAL", "CLEAR_FAULT", "DISCONNECTED"}
              Dest(p, e) ==
                  CASE e = "STOP" /\ p \in Active -> "OFF"
                    [] e = "START_FAN_ONLY" /\ p = "OFF" -> "FAN_ONLY"
                    [] e = "EXIT_FAN_ONLY" /\ p = "FAN_ONLY" -> "OFF"
                    [] e = "START_PREHEAT" /\ p \in {"OFF", "FAN_ONLY"} -> "PREHEAT"
                    [] e = "LOAD_BEANS" /\ p = "PREHEAT" -> "ROASTING"
                    [] e = "END_ROAST" /\ p = "ROASTING" -> "COOLING"
                    [] e = "COOL_COMPLETE" /\ p = "COOLING" -> "OFF"
                    [] e = "ENTER_MANUAL" /\ p = "OFF" -> "MANUAL"
                    [] e = "EXIT_MANUAL" /\ p = "MANUAL" -> "OFF"
                    [] e = "FAULT" /\ p # "ERROR" -> "ERROR"
                    [] e = "CLEAR_FAULT" /\ p = "ERROR" -> "OFF"
                    [] e = "DISCONNECTED" /\ p \in {"PREHEAT", "ROASTING"} -> "COOLING"
                    [] e = "DISCONNECTED" /\ p \in {"MANUAL", "FAN_ONLY"} -> "OFF"
                    [] OTHER -> p
          IN  /\ \A e \in TableEvents : \A v \in {0, 150} :
                    state_handle_event(World, e, v).sm.phase = Dest(sm.phase, e)
              /\ safety_trigger_fault(World, "OVER_TEMP_CHAMBER", TRUE).sm.phase
                    = Dest(sm.phase, "FAULT"))
    /\ [][sm.phase' # sm.phase =>
            <<sm.phase, sm.phase'>> \in
               {<<"OFF", "FAN_ONLY">>, <<"OFF", "PREHEAT">>, <<"OFF", "MANUAL">>,
                <<"FAN_ONLY", "OFF">>, <<"FAN_ONLY", "PREHEAT">>,
                <<"PREHEAT", "OFF">>, <<"PREHEAT", "ROASTING">>, <<"PREHEAT", "COOLING">>,
                <<"ROASTING", "OFF">>, <<"ROASTING", "COOLING">>,
                <<"COOLING", "OFF">>, <<"MANUAL", "OFF">>, <<"ERROR", "OFF">>,
                <<"OFF", "ERROR">>, <<"FAN_ONLY", "ERROR">>, <<"PREHEAT", "ERROR">>,
                <<"ROASTING", "ERROR">>, <<"COOLING", "ERROR">>,
                <<"MANUAL", "ERROR">>}]_vars

\* the roaster went OFF, PREHEAT, ROASTING (first crack marked), COOLING and
\* an iteration has completed in COOLING with the host connected
C12_Witness ==
    /\ sm.phase = "COOLING"
    /\ sm.first_crack_marked
    /\ ser.connectionActive
    /\ pc = "loop"

\* C13: a clearFault line handled in ERROR unlatches the fault, clears the
\* error record and enters OFF with heater and fan disabled and their
\* outputs 0; while the phase stays OFF the outputs do not change, and the
\* phase leaves OFF only by a line that enters FAN_ONLY, PREHEAT or MANUAL,
\* or by a fault.
C13_ClearFaultToOff ==
    [][/\ (sm.phase = "ERROR" /\ ClearFaultStep) =>
            /\ ~saf.fault_active' /\ saf.fault_code' = "" /\ ~saf.fault_fatal'
            /\ sm.error_code' = "" /\ ~sm.error_fatal'
            /\ sm.phase' = "OFF"
            /\ Outputs(hw') = <<FALSE, hw.fan_speed, 0, FALSE, 0, 0, FALSE>>
       /\ (sm.phase = "OFF" /\ sm.phase' = "OFF") => Outputs(hw') = Outputs(hw)
       /\ (sm.phase = "OFF" /\ sm.phase' # "OFF") =>
            \/ sm.phase' = "ERROR" /\ Outputs(hw') = Outputs(hw)
            \/ /\ sm.phase' \in {"FAN_ONLY", "PREHEAT", "MANUAL"}
               /\ pc = "serial" /\ pc' = "serial"]_vars

\* a thermocouple fault was latched on the tenth read (the debouncer stands
\* at the threshold with no warning logged) and a clearFault line has just
\* returned the roaster to OFF
C13_Witness ==
    /\ sm.phase = "OFF"
    /\ ~saf.fault_active
    /\ saf.fault_count >= FAULT_THRESHOLD
    /\ ~saf.warning_logged
    /\ sm.error_code = ""
    /\ ~hw.heater_enabled /\ ~hw.fan_enabled
    /\ pc = "serial"

\* C14: in every reachable state the PID is enabled exactly when the phase
\* is PREHEAT or ROASTING, in every other phase its output is 0, and the
\* pidEnabled flag of every roasterState message of the step equals the
\* PID's own enabled flag.
C14_PidEnabledIffHeatingPhase ==
    /\ pid.enabled <=> sm.phase \in {"PREHEAT", "ROASTING"}
    /\ sm.phase \notin {"PREHEAT", "ROASTING"} => pid.output = 0
    /\ state_is_pid_enabled(World) = pid.enabled
    /\ \A i \in DOMAIN out :
          out[i].type = "roasterState" => out[i].pidEnabled = pid.enabled

\* the PID has computed an output while roasting, the roast was ended and an
\* iteration has completed in COOLING
C14_Witness ==
    /\ sm.phase = "COOLING"
    /\ sm.roast_start_time > 0
    /\ pid.last_time > sm.roast_start_time
    /\ ~pid.enabled
    /\ pc = "loop"

\* C15: in every reachable state, phase OFF implies heater disabled, fan
\* disabled and roast epoch (_roast_start_time) 0.
C15_OffIsQuiescent ==
    sm.phase = "OFF" =>
        /\ ~hw.heater_enabled
        /\ ~hw.fan_enabled
        /\ sm.roast_start_time = 0

\* OFF was re-entered after a session that went through PREHEAT, and an
\* iteration has completed in OFF
C15_Witness ==
    /\ sm.phase = "OFF"
    /\ sm.preheat_start_time > 0
    /\ sm.roast_start_time = 0
    /\ pc = "loop"

\* C16: in every reachable state the setpoint and the preheat target lie in
\* [100, 260] and the stored fan and heater percentages lie in [0, 100].
C16_PayloadRanges ==
    /\ sm.setpoint \in 100..260
    /\ sm.preheat_target \in 100..260
    /\ hw.fan_speed \in 0..100
    /\ sm.manual_fan_speed \in 0..100
    /\ sm.fan_only_speed \in 0..100
    /\ hw.heater_power \in 0..100
    /\ sm.manual_heater_power \in 0..100

\* C17: in every reachable state, first crack marked implies a first-crack
\* offset (_first_crack_time) greater than 0.
C17_FirstCrackOffsetPositive ==
    sm.first_crack_marked => sm.first_crack_time > 0

\* C18 (as stated): a stop line handled in any phase leaves the phase OFF.
C18_StopAlwaysOff ==
    [][StopStep => sm.phase' = "OFF"]_vars

\* C18 (amended): a stop line handled in any phase other than ERROR leaves
\* the phase OFF; handled in ERROR or in OFF it leaves state machine,
\* hardware, safety latch and PID unchanged, so every further stop is a
\* no-op.
C18_StopIdempotent ==
    [][StopStep =>
         /\ sm.phase # "ERROR" => sm.phase' = "OFF"
         /\ sm.phase \in {"ERROR", "OFF"} => UNCHANGED <<sm, hw, saf, pid>>]_vars

\* a fault is latched and the host has sent a line in this iteration while
\* the phase is ERROR
C18_Witness ==
    /\ sm.phase = "ERROR"
    /\ saf.fault_active
    /\ ser.connectionActive
    /\ ser.lastDataReceived = now
    /\ pc = "serial"
    /\ out = <<>>

\* the step handles a markFirstCrack line
MarkStep == ReceiveLine({Cmd("markFirstCrack")}, {Ok(100)})

\* C19: a FIRST_CRACK handled in ROASTING with first crack not yet marked
\* sets the mark and the offset now - roast epoch; while the phase stays
\* ROASTING with first crack marked no step (a later FIRST_CRACK included)
\* changes the mark or the offset; every entry to ROASTING clears both.
C19_FirstCrackOnce ==
    [][/\ (MarkStep /\ sm.phase = "ROASTING" /\ ~sm.first_crack_marked) =>
            /\ sm.first_crack_marked'
            /\ sm.first_crack_time' = Since(now, sm.roast_start_time)
       /\ (sm.phase = "ROASTING" /\ sm.phase' = "ROASTING" /\ sm.first_crack_marked) =>
            /\ sm.first_crack_marked'
            /\ sm.first_crack_time' = sm.first_crack_time
       /\ (sm.phase # "ROASTING" /\ sm.phase' = "ROASTING") =>
            /\ ~sm.first_crack_marked'
            /\ sm.first_crack_time' = 0]_vars

\* first crack was marked earlier in the session and a markFirstCrack line
\* has just been handled again, later on the clock
C19_Witness ==
    /\ sm.phase = "ROASTING"
    /\ sm.first_crack_marked
    /\ Since(now, sm.roast_start_time) > sm.first_crack_time
    /\ pc = "serial"
    /\ \E i \in DOMAIN out : out[i].type = "roastEvent"

\* C20: a step that enters ERROR (a fault is newly latched) emits exactly
\* one message of type "error", carrying the latched fault's code.
C20_OneErrorMessagePerLatch ==
    [][(sm.phase # "ERROR" /\ sm.phase' = "ERROR") =>
         /\ Cardinality({i \in DOMAIN out' : out'[i].type = "error"}) = 1
         /\ \A i \in DOMAIN out' :
              out'[i].type = "error" => out'[i].msg = sm.error_code']_vars

\* C21: in every reachable state, an event that the current phase does not
\* accept (a blank cell of the transition table, SET_SETPOINT outside OFF,
\* PREHEAT, ROASTING, SET_FAN_SPEED outside FAN_ONLY, PREHEAT, ROASTING,
\* MANUAL, SET_HEATER_POWER outside MANUAL, FIRST_CRACK outside ROASTING),
\* handed to the state machine with any value, leaves the state machine's
\* fields, the hardware outputs, the PID and the safety latch as they are.
C21_RejectedEventNoEffect ==
    LET Accepted(p, e) ==
            CASE e = "STOP" -> p \in {"FAN_ONLY", "PREHEAT", "ROASTING", "COOLING", "MANUAL"}
              [] e = "START_FAN_ONLY" -> p = "OFF"
              [] e = "EXIT_FAN_ONLY" -> p = "FAN_ONLY"
              [] e = "START_PREHEAT" -> p \in {"OFF", "FAN_ONLY"}
              [] e = "LOAD_BEANS" -> p = "PREHEAT"
              [] e = "END_ROAST" -> p = "ROASTING"
              [] e = "COOL_COMPLETE" -> p = "COOLING"
              [] e = "ENTER_MANUAL" -> p = "OFF"
              [] e = "EXIT_MANUAL" -> p = "MANUAL"
              [] e = "CLEAR_FAULT" -> p = "ERROR"
              [] e = "DISCONNECTED" -> p \in {"PREHEAT", "ROASTING", "MANUAL", "FAN_ONLY"}
              [] e = "SET_SETPOINT" -> p \in {"OFF", "PREHEAT", "ROASTING"}
              [] e = "SET_FAN_SPEED" -> p \in {"FAN_ONLY", "PREHEAT", "ROASTING", "MANUAL"}
              [] e = "SET_HEATER_POWER" -> p = "MANUAL"
              [] e = "FIRST_CRACK" -> p = "ROASTING"
        Events == {"STOP", "START_FAN_ONLY", "EXIT_FAN_ONLY", "START_PREHEAT",
                   "LOAD_BEANS", "END_ROAST", "COOL_COMPLETE", "ENTER_MANUAL",
                   "EXIT_MANUAL", "CLEAR_FAULT", "DISCONNECTED", "SET_SETPOINT",
                   "SET_FAN_SPEED", "SET_HEATER_POWER", "FIRST_CRACK"}
    IN  \A e \in Events : \A v \in {0, 20, 60, 150} :
           ~Accepted(sm.phase, e) =>
               LET w == state_handle_event(World, e, v)
               IN  w.sm = sm /\ w.hw = hw /\ w.pid = pid /\ w.saf = saf

\* a markFirstCrack line has just been handled in MANUAL, after the heater
\* power and the fan speed were set there, and no first crack is marked
C21_Witness ==
    /\ sm.phase = "MANUAL"
    /\ sm.manual_heater_power = 60
    /\ sm.manual_fan_speed = 20
    /\ ~sm.first_crack_marked
    /\ pc = "serial"
    /\ \E i \in DOMAIN out : out[i].type = "roastEvent"

\* the step handles a setFanSpeed line with value 20
FanSpeedStep == ReceiveLine({CmdV("setFanSpeed", 20)}, {Ok(100)})

SetpointStep == ReceiveLine({CmdV("setSetpoint", 150)}, {Ok(100)})

\* C23: a setSetpoint line handled in PREHEAT sets the preheat target and
\* the PID setpoint and leaves the roast setpoint (_setpoint) unchanged;
\* handled in ROASTING it sets the roast setpoint and the PID setpoint and
\* leaves the preheat target unchanged; the phase changes in neither case.
C23_SetpointFrame ==
    [][SetpointStep =>
         /\ sm.phase = "PREHEAT" =>
               /\ sm.preheat_target' = 150
               /\ pid.setpoint' = 150
               /\ sm.setpoint' = sm.setpoint
               /\ sm.phase' = "PREHEAT"
         /\ sm.phase = "ROASTING" =>
               /\ sm.setpoint' = 150
               /\ pid.setpoint' = 150
               /\ sm.preheat_target' = sm.preheat_target
               /\ sm.phase' = "ROASTING"]_vars

\* C24: after every step that changes the phase the actuators match the
\* entry actions of the new phase: OFF and ERROR - fan, heater and PID
\* disabled; FAN_ONLY - heater and PID disabled, fan enabled at the
\* remembered fan-only speed; PREHEAT - fan enabled at 50%, PID integral and
\* output 0, PID enabled with the preheat target as setpoint, heater
\* enabled; ROASTING - fan enabled at 90%, PID integral and output 0, PID
\* enabled with the roast setpoint, heater enabled; COOLING - heater and PID
\* disabled, fan enabled at 100%; MANUAL - fan enabled at 50%, PID
\* disabled, heater enabled at 0% power.
C24_EntryActions ==
    [][sm.phase' # sm.phase =>
         /\ sm.phase' \in {"OFF", "ERROR"} =>
               /\ ~hw.fan_enabled' /\ hw.fan_pwm_written' = 0
               /\ ~hw.heater_enabled' /\ ~hw.ssr'
               /\ ~pid.enabled'
         /\ sm.phase' = "FAN_ONLY" =>
               /\ ~hw.heater_enabled' /\ ~hw.ssr'
               /\ ~pid.enabled'
               /\ hw.fan_enabled' /\ hw.fan_speed' = sm.fan_only_speed'
               /\ hw.fan_pwm_written' = (sm.fan_only_speed' * 255) \div 100
         /\ sm.phase' = "PREHEAT" =>
               /\ hw.fan_enabled' /\ hw.fan_speed' = 50 /\ hw.fan_pwm_written' = 127
               /\ pid.integral' = 0 /\ pid.output' = 0
               /\ pid.enabled' /\ pid.setpoint' = sm.preheat_target'
               /\ hw.heater_enabled'
         /\ sm.phase' = "ROASTING" =>
               /\ hw.fan_enabled' /\ hw.fan_speed' = 90 /\ hw.fan_pwm_written' = 229
               /\ pid.integral' = 0 /\ pid.output' = 0
               /\ pid.enabled' /\ pid.setpoint' = sm.setpoint'
               /\ hw.heater_enabled'
         /\ sm.phase' = "COOLING" =>
               /\ ~hw.heater_enabled' /\ ~hw.ssr'
               /\ ~pid.enabled'
               /\ hw.fan_enabled' /\ hw.fan_speed' = 100 /\ hw.fan_pwm_written' = 255
         /\ sm.phase' = "MANUAL" =>
               /\ hw.fan_enabled' /\ hw.fan_speed' = 50 /\ hw.fan_pwm_written' = 127
               /\ ~pid.enabled'
               /\ hw.heater_enabled'
               /\ hw.heater_power' = 0 /\ hw.heater_pid_output' = 0]_vars

\* MANUAL has just been entered (the heater window starts now) after a roast
\* in which the PID had integrated
C24_Witness ==
    /\ sm.phase = "MANUAL"
    /\ hw.heater_enabled
    /\ hw.heater_window_start = now
    /\ hw.heater_power = 0
    /\ hw.fan_speed = 50
    /\ pid.integral # 0
    /\ ~pid.enabled
    /\ pc = "serial"

\* C25: the roast epoch (_roast_start_time) is set to the clock by the step
\* that enters PREHEAT, is left unchanged by the steps that enter ROASTING
\* and COOLING, and changes otherwise only to 0 in a step that enters OFF;
\* so in PREHEAT, ROASTING and COOLING it is the time PREHEAT was entered,
\* and the roast time of every roasterState message sent in these phases is
\* the clock minus that time.
C25_RoastEpoch ==
    /\ [][/\ (sm.phase # "PREHEAT" /\ sm.phase' = "PREHEAT") =>
                 sm.roast_start_time' = now
          /\ (sm.phase' # sm.phase /\ sm.phase' \in {"ROASTING", "COOLING"}) =>
                 sm.roast_start_time' = sm.roast_start_time
          /\ (sm.phase # "OFF" /\ sm.phase' = "OFF") => sm.roast_start_time' = 0
          /\ (sm.roast_start_time' # sm.roast_start_time) =>
                 \/ sm.phase # "PREHEAT" /\ sm.phase' = "PREHEAT"
                 \/ sm.phase # "OFF" /\ sm.phase' = "OFF"]_vars
    /\ [](sm.phase \in {"PREHEAT", "ROASTING", "COOLING"} =>
             /\ sm.roast_start_time = sm.preheat_start_time
             /\ \A i \in DOMAIN out :
                   (out[i].type = "roasterState" /\ out[i].state = sm.phase) =>
                       out[i].roastTimeMs = Since(now, sm.roast_start_time))

\* PREHEAT was entered at the first iteration, ROASTING one pause later
\* (the PID holds the roast setpoint, was reset and made its first update
\* then), COOLING another pause later, and the roasterState message just
\* sent in COOLING reports the time since PREHEAT was entered
C25_Witness ==
    /\ sm.phase = "COOLING"
    /\ sm.roast_start_time = SETUP_DELAY_MS
    /\ pid.setpoint = DEFAULT_ROAST_SETPOINT
    /\ pid.integral = 0
    /\ pid.last_time = SETUP_DELAY_MS + HalfStep
    /\ now = SETUP_DELAY_MS + 2 * HalfStep
    /\ \E i \in DOMAIN out :
          out[i].type = "roasterState" /\ out[i].roastTimeMs = 2 * HalfStep

\* C26: a state update in COOLING whose filtered chamber temperature is
\* below COOLING_TARGET_TEMP enters OFF in that step, and one whose filtered
\* temperature is at or above it leaves the phase COOLING; COOLING is left
\* in no other way than that, a stop line, or a fault (to ERROR), however
\* much time passes.
C26_CoolingExit ==
    [][/\ (pc = "state" /\ sm.phase = "COOLING") =>
             IF hw.filtered_temp' < COOLING_TARGET_TEMP
             THEN sm.phase' = "OFF" /\ ~hw.fan_enabled' /\ sm.roast_start_time' = 0
             ELSE sm.phase' = "COOLING" /\ sm' = sm
       /\ (sm.phase = "COOLING" /\ sm.phase' # "COOLING") =>
             \/ pc = "state" /\ sm.phase' = "OFF"
             \/ StopStep /\ sm.phase' = "OFF"
             \/ sm.phase' = "ERROR" /\ saf.fault_active'
       /\ (sm.phase = "COOLING" /\ pc = "loop") => sm.phase' = "COOLING"]_vars

\* COOLING was entered from PREHEAT one pause after the first iteration and
\* has lasted two more pauses (fifteen minutes) at a filtered temperature of
\* exactly COOLING_TARGET_TEMP
C26_Witness ==
    /\ sm.phase = "COOLING"
    /\ hw.filtered_temp = COOLING_TARGET_TEMP
    /\ sm.roast_start_time = SETUP_DELAY_MS
    /\ now = SETUP_DELAY_MS + 3 * HalfStep
    /\ pc = "loop"

\* the lines of PayloadLines whose value lies outside the documented range
\* of the command (100..260 for temperatures, 0..100 for percentages)
OutOfRangeLines == { CmdV("setSetpoint", 50), CmdV("startPreheat", 50),
                     CmdV("enterFanOnly", 150), CmdV("setFanSpeed", 200),
                     CmdV("setHeaterPower", 200) }

\* the step handles a line with an out-of-range value
OutOfRangeStep == ReceiveLine(OutOfRangeLines, {Ok(100)})

\* C27: a step that handles a command whose value is out of range leaves
\* the state machine, the hardware outputs, the PID and the latch unchanged.
C27_OutOfRangeDropped ==
    [][OutOfRangeStep => UNCHANGED <<sm, hw, pid, saf>>]_vars

\* the step receives a line longer than the input buffer
LongLineStep == ReceiveBytes(LongLines)

\* C28: a step that receives a whole line longer than the input buffer
\* dispatches nothing (state machine, hardware, PID and latch are
\* unchanged) and leaves the buffer empty for the next line.
C28_LongLineDropped ==
    [][LongLineStep =>
         /\ UNCHANGED <<sm, hw, pid, saf>>
         /\ ser.inputBuffer' = <<>>]_vars

\* C29: in every reachable state the PID output lies in [0, 255], and a
\* pid_update call made from it with any measured temperature, setpoint and
\* elapsed time leaves the output in [0, 255]; made while the PID is
\* disabled it leaves the output 0 and the integral as it was.
C29_PidOutputBounds ==
    /\ pid.output \in PID_OUTPUT_MIN..PID_OUTPUT_MAX
    /\ ~pid.enabled => pid.output = 0
    /\ \A t \in {-200, 0, 100, 179, 1500} :
          \A s \in {1, 180, 1000} :
             \A d \in {0, STATE_UPDATE_INTERVAL, HalfStep} :
                LET w == pid_update([World EXCEPT !.pid.setpoint = s,
                                                  !.now = now + d], t)
                IN  /\ w.pid.output \in PID_OUTPUT_MIN..PID_OUTPUT_MAX
                    /\ ~pid.enabled =>
                          (w.pid.output = 0 /\ w.pid.integral = pid.integral)

\* the PID has run in PREHEAT, its integral stands at the anti-windup limit
\* and its output at the upper limit
C29_Witness ==
    /\ sm.phase = "PREHEAT"
    /\ pid.enabled
    /\ pid.output = PID_OUTPUT_MAX
    /\ pid.integral = (PID_OUTPUT_MAX * 1000) \div PID_KI_AGGRESSIVE
    /\ pc = "loop"

\* number of heater_update calls, out of n calls made d milliseconds apart
\* from the world w on, that leave the SSR HIGH
RECURSIVE HighTicks(_, _, _)
HighTicks(w, d, n) ==
    IF n = 0
    THEN 0
    ELSE LET w1 == heater_update(w)
         IN  (IF w1.hw.ssr THEN 1 ELSE 0)
                + HighTicks([w1 EXCEPT !.now = @ + d], d, n - 1)

\* C30: in every reachable state with the heater enabled, for every
\* pid_output o held over the window that starts PID_WINDOW_SIZE_MS after
\* the current one and every tick d that divides the window, the time the
\* SSR is HIGH in that window (d times the number of HIGH ticks) differs
\* from (o / 255) * PID_WINDOW_SIZE_MS by at most one tick, is 0 for o = 0
\* and is the whole window for o = 255; and the on-time heater_update
\* compares the window time with differs from (o / 255) * PID_WINDOW_SIZE_MS
\* by less than a millisecond for every o in 0..255.
C30_SsrDutyCycle ==
    hw.heater_enabled =>
        /\ \A o \in {0, 1, 64, 127, 128, 153, 254, 255} :
              \A d \in {50, 100, 250, 500} :
                 LET w0 == [World EXCEPT !.hw.heater_pid_output = o,
                                         !.now = hw.heater_window_start
                                                    + PID_WINDOW_SIZE_MS]
                     high == d * HighTicks(w0, d, PID_WINDOW_SIZE_MS \div d)
                 IN  /\ Abs(255 * high - o * PID_WINDOW_SIZE_MS) <= 255 * d
                     /\ o = 0 => high = 0
                     /\ o = 255 => high = PID_WINDOW_SIZE_MS
        /\ \A o \in 0..255 :
              Abs(255 * map(o, 0, 255, 0, PID_WINDOW_SIZE_MS) - o * PID_WINDOW_SIZE_MS) < 255

\* the heater runs at 60% in MANUAL (pid_output 153, on-time 1200 ms) and
\* the state update three quarters into the window has switched the SSR LOW
C30_Witness ==
    /\ sm.phase = "MANUAL"
    /\ hw.heater_enabled
    /\ hw.heater_pid_output = 153
    /\ Since(now, hw.heater_window_start) = 3 * TickStep
    /\ ~hw.ssr
    /\ pc = "loop"

\* the step handles a getState line
GetStateStep == ReceiveLine({Cmd("getState")}, {Ok(100)})

\* C31: a step that handles a getState line (and so emits a roasterState
\* message) leaves the state machine, the hardware layer (temperature filter
\* and rate-of-rise estimator included), the PID and the safety monitor
\* unchanged.
C31_TelemetryReadOnly ==
    [][GetStateStep => UNCHANGED <<sm, hw, pid, saf>>]_vars

\* C32: the roasterState message of an iteration (sent by the serial update,
\* still in out when the safety update runs) reports the phase and the
\* heater-enabled flag that the iteration's safety update leaves; these are
\* also what the iteration ends with when the safety update enters ERROR,
\* since the state update changes nothing in ERROR.
C32_TelemetryOfSameTick ==
    [][pc = "safety" =>
         \A i \in DOMAIN out :
            out[i].type = "roasterState" =>
               /\ out[i].state = sm.phase'
               /\ out[i].heaterEnabled = hw.heater_enabled']_vars

\* C33: in every reachable state the SSR is HIGH only if the heater is
\* enabled, the heater is enabled only if the phase is PREHEAT, ROASTING or
\* MANUAL, so the SSR is LOW in OFF, FAN_ONLY, COOLING and ERROR; and a
\* heater_update call made from the state drives the SSR HIGH only if the
\* heater is enabled.
C33_SsrOnlyWhenHeating ==
    /\ hw.ssr => hw.heater_enabled
    /\ hw.heater_enabled => sm.phase \in {"PREHEAT", "ROASTING", "MANUAL"}
    /\ sm.phase \in {"OFF", "FAN_ONLY", "COOLING", "ERROR"} => ~hw.ssr
    /\ heater_update(World).hw.ssr => hw.heater_enabled

\* the PID has integrated while roasting (its output drove the SSR HIGH),
\* the roast was ended and an iteration has completed in COOLING with the
\* SSR LOW
C33_Witness ==
    /\ sm.phase = "COOLING"
    /\ pid.integral # 0
    /\ sm.first_crack_time = 0
    /\ ~hw.ssr
    /\ ~hw.heater_enabled
    /\ hw.fan_speed = FAN_COOLING_DUTY
    /\ pc = "loop"

\* C34: with every thermocouple read returning the same non-zero fault
\* mask, the safety update that has counted the mask FAULT_THRESHOLD times
\* with the heater enabled enters ERROR and disables the heater.
C34_StuckFaultStopsHeater ==
    [][(/\ pc = "safety"
        /\ ~saf.fault_active
        /\ hw.heater_enabled
        /\ hw.thermo_fault' # 0
        /\ saf.fault_count' >= FAULT_THRESHOLD)
       => (sm.phase' = "ERROR" /\ ~hw.heater_enabled')]_vars

\* C35: in every reachable state the safety latch is active exactly when
\* the phase is ERROR, and in ERROR the state machine's error code and fatal
\* flag are the latch's; a fault raised while the latch is active changes
\* neither the latch nor the state machine, and no step changes the code of
\* a latch that stays active, so the code is that of the first fault since
\* the latch was last cleared.
C35_LatchIffError ==
    /\ [](/\ saf.fault_active <=> sm.phase = "ERROR"
          /\ sm.phase = "ERROR" =>
                /\ sm.error_code = saf.fault_code
                /\ sm.error_fatal = saf.fault_fatal
                /\ saf.fault_code # ""
          /\ saf.fault_active =>
                \A code \in {"OVER_TEMP_CHAMBER", "FAN_INTERLOCK", "THERMOCOUPLE_FAULT",
                             "PREHEAT_TIMEOUT"} :
                   LET w == safety_trigger_fault(World, code, FALSE)
                   IN  w.saf = saf /\ w.sm = sm /\ w.out = <<>>)
    /\ [][/\ (saf.fault_active /\ saf.fault_active') =>
                (saf.fault_code' = saf.fault_code /\ sm.error_code' = sm.error_code)
          /\ (~saf.fault_active /\ saf.fault_active') =>
                (sm.phase' = "ERROR" /\ sm.error_code' = saf.fault_code')]_vars

\* a thermocouple fault was latched on the tenth read (the debouncer still
\* stands at the threshold with no warning logged) and cleared, an
\* over-temperature fault was latched after it, and an iteration has
\* completed in ERROR
C35_Witness ==
    /\ sm.phase = "ERROR"
    /\ saf.fault_active
    /\ saf.fault_code = "OVER_TEMP_CHAMBER"
    /\ sm.error_code = "OVER_TEMP_CHAMBER"
    /\ saf.fault_count >= FAULT_THRESHOLD
    /\ ~saf.warning_logged
    /\ pc = "loop"

\* C36: in every reachable state the heater is enabled only while the
\* connection is marked active; once the serial update of an iteration has
\* run, the heater is enabled only if the last inbound byte is at most
\* SERIAL_TIMEOUT_MS old; and the serial update that finds the connection
\* active and the silence longer than that leaves the heater disabled,
\* whichever of PREHEAT, ROASTING and MANUAL it finds.
C36_HeaterNeedsLiveHost ==
    /\ [](/\ hw.heater_enabled => ser.connectionActive
          /\ (hw.heater_enabled /\ pc # "serial") =>
                Since(now, ser.lastDataReceived) <= SERIAL_TIMEOUT_MS)
    /\ [][(/\ pc = "serial" /\ pc' = "safety"
           /\ ser.connectionActive
           /\ Since(now, ser.lastDataReceived) > SERIAL_TIMEOUT_MS)
          => (/\ ~hw.heater_enabled' /\ ~hw.ssr'
              /\ sm.phase' \notin {"PREHEAT", "ROASTING", "MANUAL"})]_vars

\* the host went silent while roasting (the PID holds the roast setpoint),
\* the serial update of the next iteration has delivered DISCONNECTED and
\* the iteration has completed in COOLING with the heater disabled
C36_Witness ==
    /\ sm.phase = "COOLING"
    /\ ~ser.connectionActive
    /\ pid.setpoint = DEFAULT_ROAST_SETPOINT
    /\ sm.roast_start_time = ser.lastDataReceived
    /\ Since(now, ser.lastDataReceived) = HalfStep
    /\ ~hw.heater_enabled
    /\ pc = "loop"

\* C37: in every reachable state the PID setpoint is the preheat target in
\* PREHEAT and the roast setpoint (_setpoint) in ROASTING, and in both
\* phases state_get_setpoint() and the setpoint of every roasterState
\* message of the step equal the PID setpoint.
C37_SetpointAgreement ==
    /\ sm.phase = "PREHEAT" => pid.setpoint = sm.preheat_target
    /\ sm.phase = "ROASTING" => pid.setpoint = sm.setpoint
    /\ sm.phase \in {"PREHEAT", "ROASTING"} =>
          /\ state_get_setpoint(World) = pid.setpoint
          /\ \A i \in DOMAIN out :
                out[i].type = "roasterState" => out[i].setpoint = pid.setpoint

\* the setpoint was changed to 150 while roasting (the preheat target is
\* still the default) and a roasterState message has just reported it
C37_Witness ==
    /\ sm.phase = "ROASTING"
    /\ sm.setpoint = 150
    /\ sm.preheat_target = DEFAULT_PREHEAT_TEMP
    /\ pid.setpoint = 150
    /\ \E i \in DOMAIN out : out[i].type = "roasterState" /\ out[i].setpoint = 150

\* C38: a state update that makes the PID compute an output (PID enabled
\* and initialised, time elapsed) leaves the aggressive tunings if the
\* setpoint and the filtered temperature it used differ by more than
\* PID_THRESHOLD and the conservative tunings otherwise; and in every
\* reachable state the same holds of a pid_update call made after
\* pid_disable, pid_reset, pid_enable and the initialising update, for
\* every setpoint and temperature.
C38_GainSchedule ==
    /\ [][(pc = "state" /\ pid.enabled /\ pid.last_time # 0 /\ now > pid.last_time) =>
            pid_get_tunings([pid |-> pid']) =
               IF Abs(pid.setpoint - hw.filtered_temp') > PID_THRESHOLD
               THEN <<PID_KP_AGGRESSIVE, PID_KI_AGGRESSIVE, PID_KD_AGGRESSIVE>>
               ELSE <<PID_KP_CONSERVATIVE, PID_KI_CONSERVATIVE, PID_KD_CONSERVATIVE>>]_vars
    /\ [](\A sp \in {100, 180} : \A t \in {89, 90, 100, 110, 111, 169, 170, 190, 191} :
             LET w0 == pid_enable(pid_reset(pid_disable(
                          [World EXCEPT !.pid.setpoint = sp])))
                 w1 == pid_update(w0, 100)
                 w2 == pid_update([w1 EXCEPT !.now = @ + STATE_UPDATE_INTERVAL], t)
             IN  /\ pid_get_tunings(w1) = pid_get_tunings(World)
                 /\ pid_get_tunings(w2) =
                       IF Abs(sp - t) > PID_THRESHOLD
                       THEN <<PID_KP_AGGRESSIVE, PID_KI_AGGRESSIVE, PID_KD_AGGRESSIVE>>
                       ELSE <<PID_KP_CONSERVATIVE, PID_KI_CONSERVATIVE, PID_KD_CONSERVATIVE>>
                 /\ w2.pid.is_aggressive <=> Abs(sp - t) > PID_THRESHOLD)

\* the PID ran into the aggressive anti-windup limit with the setpoint at
\* 150, and has switched back to the conservative tunings in the update
\* that followed a setSetpoint 101, in which it integrated one degree of
\* error over one pause
C38_Witness ==
    /\ sm.phase = "PREHEAT"
    /\ pid.setpoint = 101
    /\ ~pid.is_aggressive
    /\ pid_get_tunings(World)
          = <<PID_KP_CONSERVATIVE, PID_KI_CONSERVATIVE, PID_KD_CONSERVATIVE>>
    /\ pid.integral = (PID_OUTPUT_MAX * 1000) \div PID_KI_AGGRESSIVE + ShortStep
    /\ pc = "loop"

\* C39: a step that handles a markFirstCrack line emits a roastEvent
\* message exactly when it records first crack, that is, when the phase is
\* ROASTING and first crack is not yet marked.
C39_RoastEventOnlyOnRecord ==
    [][MarkStep =>
         ((\E i \in DOMAIN out' : out'[i].type = "roastEvent")
             <=> (sm.phase = "ROASTING" /\ ~sm.first_crack_marked))]_vars

\* the step handles a debugFan or a testFanPins line
DebugStep == ReceiveBlockingLine(DebugLines, MaxNowDebug)

\* C40: a step that handles a debugFan or a testFanPins line leaves the
\* state machine, the hardware layer (flags, speeds and pin outputs), the
\* PID and the safety monitor unchanged, and leaves an enabled fan driven
\* at the duty of its set speed.
C40_DebugCommandsNoOp ==
    [][DebugStep =>
         /\ UNCHANGED <<sm, hw, pid, saf>>
         /\ hw.fan_enabled' => hw.fan_ena' = map(hw.fan_speed', 0, 100, 0, 255)]_vars

====
